---- MODULE Spec2Model ----
(***************************************************************************)
(* VAAPI capability negotiation of libhb (src/libhb/vaapi_common.c).       *)
(*                                                                         *)
(* The source file holds three revisions of vaapi_common.c:                *)
(*   lines   1..640   the lazy per-family cache with the capability cells  *)
(*                    (is_h264_available, h264_caps, ...),                 *)
(*   lines 641..883   the same cache without capability cells,             *)
(*   lines 884..1200  the one-shot initialisation (g_vaapi_init_done,      *)
(*                    vaapi_init_capabilities, hb_vaapi_setup_job).        *)
(* The first and the third are modelled, each with its own variables and   *)
(* its own specifications.  Every function is a sequence of steps of a     *)
(* thread; a step is one access to shared state or one call to the        *)
(* kernel, libdrm or libva, whose answer is chosen nondeterministically.   *)
(***************************************************************************)
EXTENDS Integers, Sequences, FiniteSets, TLC

VARIABLES
    is_h264_available,        \* vaapi_common.c:35
    is_h265_available,        \* vaapi_common.c:36
    is_h265_10bit_available,  \* vaapi_common.c:349 (function static)
    vaapi_available,          \* vaapi_common.c:37
    h264_caps,                \* vaapi_common.c:50
    h265_caps,                \* vaapi_common.c:51
    g_vaapi_init_done,        \* vaapi_common.c:910
    g_h264_available,         \* vaapi_common.c:911
    g_h265_available,         \* vaapi_common.c:912
    g_h265_10bit_available,   \* vaapi_common.c:913
    hw_disabled,              \* what hb_is_hardware_disabled() answers
    present,                  \* the device nodes that exist under /dev/dri
    device,                   \* the answers of a simulated device, or any answer
    seen,                     \* per family: the attribute values its probe read
    stack,                    \* per thread: the frames of the calls in progress
    ret,                      \* per thread: the value the last callee returned
    probe,                    \* per thread: locals of the device loop
    attrs,                    \* per thread: attrs[7] of query_vaapi_capabilities
    call,                     \* per thread: the API call in progress or last completed
    first_ret,                \* per availability function: the first value it returned
    ev                        \* the library or system call made by the last step,
                              \* and the records a probe step passed to hb_log

cacheA == <<is_h264_available, is_h265_available, is_h265_10bit_available,
            vaapi_available, h264_caps, h265_caps>>
cacheC == <<g_vaapi_init_done, g_h264_available, g_h265_available,
            g_h265_10bit_available>>
vars == <<is_h264_available, is_h265_available, is_h265_10bit_available,
          vaapi_available, h264_caps, h265_caps,
          g_vaapi_init_done, g_h264_available, g_h265_available,
          g_h265_10bit_available,
          hw_disabled, present, device, seen,
          stack, ret, probe, attrs, call, first_ret, ev>>

-----------------------------------------------------------------------------
(* Fixed sets of the program *)

Threads == {"t1", "t2"}
MainThread == "t1"

render_nodes == <<"/dev/dri/renderD128", "/dev/dri/renderD129",
                  "/dev/dri/card0", "/dev/dri/card1">>
Nodes == 1..Len(render_nodes)

VAProfiles == {"H264Main", "H264High", "HEVCMain", "HEVCMain10"}
Families == {"H264", "H265", "H265_10BIT"}
vaapi_encoders == {"VAAPI_H264", "VAAPI_H265", "VAAPI_H265_10BIT"}
VCodecs == vaapi_encoders \cup {"X264"}

FamilyOfProfile(p) ==
    CASE p \in {"H264Main", "H264High"} -> "H264"
      [] p = "HEVCMain" -> "H265"
      [] p = "HEVCMain10" -> "H265_10BIT"

FamilyOfCodec(v) ==
    CASE v = "VAAPI_H264" -> "H264"
      [] v = "VAAPI_H265" -> "H265"
      [] v = "VAAPI_H265_10BIT" -> "H265_10BIT"

DriverNames == {"amdgpu", "radeon", "i915", "nouveau"}
SupportedDrivers == {"amdgpu", "radeon", "i915"}

VA_RC_CQP == 16
VA_RC_CBR == 2
VA_RC_VBR == 4
\* TLC's integers are 32 bits wide, so the 32-bit words of the program (the
\* uint32_t attribute values and the int fields they are stored in) are modelled
\* as words of WordBits bits: VA_ATTRIB_NOT_SUPPORTED (0x80000000) is the word
\* with only its top bit set.
WordBits == 16
VA_ATTRIB_NOT_SUPPORTED == 2^(WordBits - 1)
VA_RT_FORMAT_YUV420 == 1
VA_RT_FORMAT_YUV420_10 == 256
DefaultMaxH264 == 4096
DefaultMaxH265 == 8192
DefaultMaxOther == 4096

\* bit b (a power of two) of the mask x
BitSet(x, b) == (x \div b) % 2 = 1

\* a uint32_t attribute value stored in an int
ToInt32(v) == IF v >= 2^(WordBits - 1) THEN v - 2^WordBits ELSE v

hb_vaapi_caps_t_init ==
    [supports_bframes |-> -1, supports_10bit |-> -1, max_width |-> 0,
     max_height |-> 0, rate_control_modes |-> 0, quality_levels |-> 0,
     packed_headers |-> 0]

-----------------------------------------------------------------------------
(* Answers the kernel, libdrm and libva may give *)

NS == VA_ATTRIB_NOT_SUPPORTED

\* vaGetConfigAttributes: the values of attrs[0..6] (rate control, max width,
\* max height, RT format, max reference frames, quality range, packed headers)
AttrVectors ==
    { <<NS, NS, NS, NS, NS, NS, NS>>,
      <<VA_RC_CQP + VA_RC_VBR + VA_RC_CBR, 4096, 4096, VA_RT_FORMAT_YUV420, 3, 7, 3>>,
      <<VA_RC_CBR, 8192, 4320, VA_RT_FORMAT_YUV420 + VA_RT_FORMAT_YUV420_10, 2, NS, NS>>,
      <<VA_RC_CQP, 0, 0, VA_RT_FORMAT_YUV420, 1, 0, 0>>,
      <<VA_RC_VBR, 2^WordBits - 1, 2^(WordBits - 1) + 1, NS, NS, 1, 1>>,
      <<NS, NS, 2160, VA_RT_FORMAT_YUV420_10, 3, NS, NS>> }

VAEntrypoints == {"VLD", "EncSlice", "EncSliceLP"}
EncodeEntrypoints == {"EncSlice", "EncSliceLP"}

\* drmGetVersion: NULL or a version with a driver name
DrmAnswers == {"NULL"} \cup DriverNames

\* The machine is either any device, whose every call can answer anything, or a
\* simulated device: its node opens, drmGetVersion answers `driver`, the display
\* is created and initialised, vaQueryConfigProfiles lists `profiles` followed
\* by `extra_profiles` profiles of other codecs, and vaQueryConfigEntrypoints
\* lists `entrypoints` followed by `extra_entrypoints` other entrypoints.  Any
\* device lists no profile of another codec and no other entrypoint.
AnyDevice == [simulated |-> FALSE, driver |-> "-", profiles |-> {},
              entrypoints |-> {}, extra_profiles |-> 0, extra_entrypoints |-> 0]

\* open(render_nodes[i]) can succeed only on a node that exists
OpenAnswers(i) ==
    IF i \in present THEN (IF device.simulated THEN {TRUE} ELSE BOOLEAN) ELSE {FALSE}
DrmVersions == IF device.simulated THEN {device.driver} ELSE DrmAnswers
DisplayAnswers == IF device.simulated THEN {TRUE} ELSE BOOLEAN
ProfileLists == IF device.simulated THEN {device.profiles} ELSE SUBSET VAProfiles
EntrypointLists ==
    IF device.simulated THEN {device.entrypoints} ELSE SUBSET VAEntrypoints

\* the order in which a driver lists the profiles and the entrypoints it has
ProfileOrder == <<"H264Main", "H264High", "HEVCMain", "HEVCMain10">>
EntrypointOrder == <<"VLD", "EncSlice", "EncSliceLP">>

\* VAProfile profiles[32] (line 173) and VAEntrypoint entrypoints[10] (line 243)
ProfilesCapacity == 32
EntrypointsCapacity == 10

\* the position (from 1) of the first entry of `wanted` in the array that lists
\* the members of `listed` in the order `order`; 0 when it holds none
FirstPos(order, wanted, listed) ==
    LET hits == {k \in 1..Len(order) : order[k] \in listed \cap wanted}
    IN IF hits = {} THEN 0
       ELSE LET first == CHOOSE k \in hits : \A h \in hits : k <= h
            IN Cardinality({k \in 1..first : order[k] \in listed})

\* lines 178..185, 253..259: `for (j = 0; j < num; j++) if (a[j] == wanted)
\* { found = 1; break; }` over an array of `capacity` entries whose first match
\* is at position pos: whether a match is found and the last index read.  An
\* index from `capacity` on reads outside the array, where any value may be
\* found: the scan may stop there with a match or run on to num - 1.
Scan(pos, num, capacity) ==
    IF pos > 0 THEN {[found |-> TRUE, idx |-> pos - 1]}
    ELSE IF num <= capacity THEN {[found |-> FALSE, idx |-> num - 1]}
    ELSE {[found |-> FALSE, idx |-> num - 1], [found |-> TRUE, idx |-> capacity]}

\* lines 173..185: vaQueryConfigProfiles and the scan for `profile`
ScanProfiles(profile) ==
    UNION {Scan(FirstPos(ProfileOrder, {profile}, list),
                Cardinality(list) + device.extra_profiles, ProfilesCapacity) :
             list \in ProfileLists}

\* lines 243..259: the entrypoints vaQueryConfigEntrypoints reported and the
\* scan for VAEntrypointEncSlice or VAEntrypointEncSliceLP
ScanEntrypoints ==
    UNION {Scan(FirstPos(EntrypointOrder, EncodeEntrypoints, list),
                Cardinality(list) + device.extra_entrypoints, EntrypointsCapacity) :
             list \in EntrypointLists}

-----------------------------------------------------------------------------
(* Threads, frames and events *)

Frame(fn, pc, arg) == [fn |-> fn, pc |-> pc, arg |-> arg]
Idle(t) == stack[t] = <<>>
AllIdle == \A t \in Threads : Idle(t)
Top(t) == stack[t][Len(stack[t])]
At(t, fn, pc) == ~Idle(t) /\ Top(t).fn = fn /\ Top(t).pc = pc
InFrame(t, fn) == \E k \in 1..Len(stack[t]) : stack[t][k].fn = fn

Goto(t, pc) == stack' = [stack EXCEPT ![t][Len(stack[t])].pc = pc]
\* set the return point of the caller and enter the callee
CallFn(t, back, fn, arg) ==
    stack' = [stack EXCEPT ![t] =
                 Append([@ EXCEPT ![Len(@)].pc = back], Frame(fn, "entry", arg))]
\* leave the top frame with value v; the outermost frame completes the API call
Return(t, v) ==
    /\ stack' = [stack EXCEPT ![t] = SubSeq(@, 1, Len(@) - 1)]
    /\ ret' = [ret EXCEPT ![t] = v]
    /\ call' = IF Len(stack[t]) = 1
                 THEN [call EXCEPT ![t].done = TRUE, ![t].ret = v]
                 ELSE call

\* what the probes of a family have read of the rate-control and the max
\* reference-frame attribute: -1 while no probe of the family read a value
NoneSeen == [f \in Families |-> [rc |-> -1, refs |-> -1]]

NoProbe == [i |-> 0, fd |-> FALSE, dpy |-> FALSE, has_profile |-> FALSE]
NoAttrs == [k |-> 0, v |-> <<>>]
NoCall == [fn |-> "-", arg |-> "-", dis |-> FALSE, opened |-> FALSE,
           done |-> FALSE, ret |-> 0]
NoEv == [op |-> "none", t |-> "-", prof |-> "-", node |-> 0, ok |-> TRUE,
         log |-> {}, idx |-> -1, entrypoint |-> "-"]
Ev(op, t, prof, node, ok) ==
    [op |-> op, t |-> t, prof |-> prof, node |-> node, ok |-> ok,
     log |-> {}, idx |-> -1, entrypoint |-> "-"]
\* the step read an array up to index idx
Indexed(e, idx) == [e EXCEPT !.idx = idx]
\* the step passed `entrypoint` to vaGetConfigAttributes
ForEntrypoint(e, entrypoint) == [e EXCEPT !.entrypoint = entrypoint]
\* a step of the device loop or of the attribute query that also passed the
\* records `msgs` to hb_log (the records of the other functions are not kept)
Logs(e, msgs) == [e EXCEPT !.log = msgs]
DeviceOps == {"open", "drmGetVersion", "vaGetDisplayDRM", "vaInitialize"}

AvailFns == {"hb_vaapi_h264_available", "hb_vaapi_h265_available",
             "hb_vaapi_h265_10bit_available", "hb_vaapi_available"}
CapFns == {"hb_vaapi_supports_bframes", "hb_vaapi_get_max_width",
           "hb_vaapi_get_max_height", "hb_vaapi_supports_cqp",
           "hb_vaapi_supports_vbr", "hb_vaapi_supports_cbr",
           "hb_vaapi_get_rc_modes"}
AvailFnOfFamily(f) ==
    CASE f = "H264" -> "hb_vaapi_h264_available"
      [] f = "H265" -> "hb_vaapi_h265_available"
      [] f = "H265_10BIT" -> "hb_vaapi_h265_10bit_available"

NoteFirst(fn, v) ==
    first_ret' = IF first_ret[fn].set THEN first_ret
                 ELSE [first_ret EXCEPT ![fn] = [set |-> TRUE, val |-> v]]

\* the state after program start, with the device nodes `nodes` in /dev/dri
\* answering as `dev`
Machine(nodes, dev) ==
    /\ is_h264_available = -1
    /\ is_h265_available = -1
    /\ is_h265_10bit_available = -1
    /\ vaapi_available = -1
    /\ h264_caps = hb_vaapi_caps_t_init
    /\ h265_caps = hb_vaapi_caps_t_init
    /\ g_vaapi_init_done = 0
    /\ g_h264_available = -1
    /\ g_h265_available = -1
    /\ g_h265_10bit_available = -1
    /\ hw_disabled \in BOOLEAN
    /\ present = nodes
    /\ device = dev
    /\ seen = NoneSeen
    /\ stack = [t \in Threads |-> <<>>]
    /\ ret = [t \in Threads |-> 0]
    /\ probe = [t \in Threads |-> NoProbe]
    /\ attrs = [t \in Threads |-> NoAttrs]
    /\ call = [t \in Threads |-> NoCall]
    /\ first_ret = [fn \in AvailFns |-> [set |-> FALSE, val |-> 0]]
    /\ ev = NoEv

\* any device: every answer the kernel, libdrm and libva can give is possible
Boot(nodes) == Machine(nodes, AnyDevice)

Init == Boot(Nodes)

\* an API function is entered by an idle thread
Enter(t, fn, arg) ==
    /\ Idle(t)
    /\ stack' = [stack EXCEPT ![t] = <<Frame(fn, "entry", arg)>>]
    /\ call' = [call EXCEPT ![t] = [fn |-> fn, arg |-> arg, dis |-> hw_disabled,
                                    opened |-> FALSE, done |-> FALSE, ret |-> 0]]
    /\ ret' = [ret EXCEPT ![t] = 0]
    /\ ev' = NoEv

\* the externally owned flag behind hb_is_hardware_disabled() changes between calls
SetHardwareDisabled ==
    /\ AllIdle
    /\ hw_disabled' = ~hw_disabled
    /\ ev' = NoEv
    /\ UNCHANGED <<cacheA, cacheC, present, device, seen, stack, ret, probe, attrs, call, first_ret>>

-----------------------------------------------------------------------------
(* Lazy per-family cache: check_vaapi_codec_support, lines 104..235 *)

env == <<hw_disabled, present, device>>

\* the loop test after i++: the next candidate of render_nodes, or the end
LoopNext(t) == IF probe[t].i + 1 > Len(render_nodes) THEN "exhausted" ELSE "open"

\* mutant: after a failed open the loop index is not advanced and the same
\* candidate is opened again
NextCandidate_retry(t) ==
    /\ probe' = [probe EXCEPT ![t].has_profile = FALSE]
    /\ Goto(t, "open")

\* `continue`: the next candidate; fd and va_dpy are what the path left them
NextCandidate(t) ==
    /\ probe' = [probe EXCEPT ![t].i = @ + 1, ![t].has_profile = FALSE]
    /\ Goto(t, LoopNext(t))

\* mutant: the `continue` after close(fd) does not advance the loop index
CloseAndContinue_again(t) ==
    /\ probe' = [probe EXCEPT ![t].fd = FALSE, ![t].has_profile = FALSE]
    /\ Goto(t, "open")

\* close(fd) at the end of an iteration, then `continue`
CloseAndContinue(t) ==
    /\ probe' = [probe EXCEPT ![t].fd = FALSE, ![t].i = @ + 1, ![t].has_profile = FALSE]
    /\ Goto(t, LoopNext(t))

\* the locals of the loop go out of scope; fd and va_dpy are what the path left
LeaveLoop(t) == probe' = [probe EXCEPT ![t].i = 0, ![t].has_profile = FALSE]

\* lines 112..118: the hardware-disabled test on entry
check_vaapi_codec_support_entry(t) ==
    /\ At(t, "check_vaapi_codec_support", "entry")
    /\ IF hw_disabled
         THEN Return(t, 0) /\ UNCHANGED probe
         ELSE /\ Goto(t, "open")
              /\ probe' = [probe EXCEPT ![t].i = 1, ![t].has_profile = FALSE]
              /\ UNCHANGED <<ret, call>>
    /\ ev' = Logs(NoEv, IF hw_disabled
                          THEN {"Checking for profile support", "Hardware encoding disabled"}
                          ELSE {"Checking for profile support"})
    /\ UNCHANGED <<cacheA, cacheC, env, seen, attrs, first_ret>>

\* lines 131..136: open(render_nodes[i], O_RDWR)
check_vaapi_codec_support_open(t) ==
    /\ At(t, "check_vaapi_codec_support", "open")
    /\ \E ok \in OpenAnswers(probe[t].i) :
          /\ ev' = Logs(Ev("open", t, Top(t).arg, probe[t].i, ok),
                        IF ok THEN {} ELSE {"Cannot open"})
          /\ IF ok
               THEN probe' = [probe EXCEPT ![t].fd = TRUE] /\ Goto(t, "drm")
               ELSE NextCandidate(t)
    /\ call' = [call EXCEPT ![t].opened = TRUE]
    /\ UNCHANGED <<cacheA, cacheC, env, seen, ret, attrs, first_ret>>

\* the records of lines 142, 152 and 159 for the answer of drmGetVersion
DrmLog(version) ==
    IF version = "NULL" THEN {"Cannot get DRM version"}
    ELSE IF version \in SupportedDrivers THEN {"Found DRM driver"}
    ELSE {"Found DRM driver", "Unsupported driver, skipping"}

\* lines 139..162: drmGetVersion and the driver allow-list
check_vaapi_codec_support_drm(t) ==
    /\ At(t, "check_vaapi_codec_support", "drm")
    /\ \E version \in DrmVersions :
          /\ ev' = Logs(Ev("drmGetVersion", t, Top(t).arg, probe[t].i, version # "NULL"),
                        DrmLog(version))
          /\ Goto(t, IF version \in SupportedDrivers THEN "dpy" ELSE "skip")
    /\ UNCHANGED <<cacheA, cacheC, env, seen, ret, probe, attrs, call, first_ret>>

\* lines 165..166, 227..230: vaGetDisplayDRM; the else branch only closes fd
check_vaapi_codec_support_dpy(t) ==
    /\ At(t, "check_vaapi_codec_support", "dpy")
    /\ \E ok \in DisplayAnswers :
          /\ ev' = Ev("vaGetDisplayDRM", t, Top(t).arg, probe[t].i, ok)
          /\ Goto(t, IF ok THEN "init" ELSE "skip")
    /\ UNCHANGED <<cacheA, cacheC, env, seen, ret, probe, attrs, call, first_ret>>

\* mutant: a failed vaInitialize goes on to the next candidate without close(fd)
check_vaapi_codec_support_init_noclose(t) ==
    /\ At(t, "check_vaapi_codec_support", "init")
    /\ \E ok \in DisplayAnswers :
          /\ ev' = Logs(Ev("vaInitialize", t, Top(t).arg, probe[t].i, ok),
                        IF ok THEN {} ELSE {"Failed to initialize VA-API"})
          /\ IF ok
               THEN probe' = [probe EXCEPT ![t].dpy = TRUE] /\ Goto(t, "profiles")
               ELSE NextCandidate(t)
    /\ UNCHANGED <<cacheA, cacheC, env, seen, ret, attrs, call, first_ret>>

\* mutant: a failed vaInitialize leaves through vaTerminate(va_dpy)
check_vaapi_codec_support_init_term(t) ==
    /\ At(t, "check_vaapi_codec_support", "init")
    /\ \E ok \in DisplayAnswers :
          /\ ev' = Logs(Ev("vaInitialize", t, Top(t).arg, probe[t].i, ok),
                        IF ok THEN {} ELSE {"Failed to initialize VA-API"})
          /\ probe' = [probe EXCEPT ![t].dpy = ok]
          /\ Goto(t, IF ok THEN "profiles" ELSE "term")
    /\ UNCHANGED <<cacheA, cacheC, env, seen, ret, attrs, call, first_ret>>

\* lines 169..170, 220..225: vaInitialize
check_vaapi_codec_support_init(t) ==
    /\ At(t, "check_vaapi_codec_support", "init")
    /\ \E ok \in DisplayAnswers :
          /\ ev' = Logs(Ev("vaInitialize", t, Top(t).arg, probe[t].i, ok),
                        IF ok THEN {} ELSE {"Failed to initialize VA-API"})
          /\ probe' = [probe EXCEPT ![t].dpy = ok]
          /\ Goto(t, IF ok THEN "profiles" ELSE "skip")
    /\ UNCHANGED <<cacheA, cacheC, env, seen, ret, attrs, call, first_ret>>

\* lines 173..185: vaQueryConfigProfiles and the scan for profile_to_check
check_vaapi_codec_support_profiles(t) ==
    /\ At(t, "check_vaapi_codec_support", "profiles")
    /\ \E scan \in ScanProfiles(Top(t).arg) :
          /\ probe' = [probe EXCEPT ![t].has_profile = scan.found]
          /\ Goto(t, IF scan.found THEN "caps" ELSE "term")
          /\ ev' = Indexed(Ev("vaQueryConfigProfiles", t, Top(t).arg, probe[t].i, TRUE),
                           scan.idx)
    /\ UNCHANGED <<cacheA, cacheC, env, seen, ret, attrs, call, first_ret>>

\* lines 192..200: caps_ptr
caps_ptr(profile) ==
    IF profile \in {"H264Main", "H264High"} THEN h264_caps ELSE h265_caps

\* lines 187..206: the capability query of a found profile, "only once"
check_vaapi_codec_support_caps(t) ==
    /\ At(t, "check_vaapi_codec_support", "caps")
    /\ IF caps_ptr(Top(t).arg).max_width = 0
         THEN CallFn(t, "term", "query_vaapi_capabilities", Top(t).arg)
         ELSE Goto(t, "term")
    /\ ev' = Logs(NoEv, {"profile supported"})
    /\ UNCHANGED <<cacheA, cacheC, env, seen, ret, probe, attrs, call, first_ret>>

\* line 208: vaTerminate
check_vaapi_codec_support_term(t) ==
    /\ At(t, "check_vaapi_codec_support", "term")
    /\ probe' = [probe EXCEPT ![t].dpy = FALSE]
    /\ Goto(t, "close")
    /\ ev' = Ev("vaTerminate", t, Top(t).arg, probe[t].i, TRUE)
    /\ UNCHANGED <<cacheA, cacheC, env, seen, ret, attrs, call, first_ret>>

\* lines 153, 160, 224, 229 ("skip"): close(fd), then continue;
\* lines 209..218 ("close"): close(fd) after vaTerminate, then return 1, or the
\* record of line 217 and continue
check_vaapi_codec_support_close(t) ==
    /\ ~Idle(t) /\ Top(t).fn = "check_vaapi_codec_support"
    /\ Top(t).pc \in {"close", "skip"}
    /\ ev' = Logs(Ev("close", t, Top(t).arg, probe[t].i, TRUE),
                  IF Top(t).pc = "close" /\ ~probe[t].has_profile
                    THEN {"profile not supported"} ELSE {})
    /\ IF probe[t].has_profile
         THEN Return(t, 1) /\ probe' = [probe EXCEPT ![t].fd = FALSE, ![t].i = 0,
                                                      ![t].has_profile = FALSE]
         ELSE CloseAndContinue(t) /\ UNCHANGED <<ret, call>>
    /\ UNCHANGED <<cacheA, cacheC, env, seen, attrs, first_ret>>

\* lines 233..234: no candidate had the profile
check_vaapi_codec_support_exhausted(t) ==
    /\ At(t, "check_vaapi_codec_support", "exhausted")
    /\ Return(t, 0)
    /\ LeaveLoop(t)
    /\ ev' = Logs(NoEv, {"No suitable hardware encoder found"})
    /\ UNCHANGED <<cacheA, cacheC, env, seen, attrs, first_ret>>

-----------------------------------------------------------------------------
(* query_vaapi_capabilities, lines 238..319 *)

\* mutant: an RT format reported 'not supported' forces supports_10bit to 0
StoreAttr_forced(caps, k, v) ==
    CASE k = 1 -> IF v # VA_ATTRIB_NOT_SUPPORTED
                    THEN [caps EXCEPT !.rate_control_modes = v] ELSE caps
      [] k = 2 -> IF v # VA_ATTRIB_NOT_SUPPORTED
                    THEN [caps EXCEPT !.max_width = ToInt32(v)] ELSE caps
      [] k = 3 -> IF v # VA_ATTRIB_NOT_SUPPORTED
                    THEN [caps EXCEPT !.max_height = ToInt32(v)] ELSE caps
      [] k = 4 -> [caps EXCEPT !.supports_10bit =
                      IF v # VA_ATTRIB_NOT_SUPPORTED /\ BitSet(v, VA_RT_FORMAT_YUV420_10)
                        THEN 1 ELSE 0]
      [] k = 5 -> IF v # VA_ATTRIB_NOT_SUPPORTED /\ v > 1
                    THEN [caps EXCEPT !.supports_bframes = IF v > 2 THEN 1 ELSE 0]
                    ELSE caps
      [] k = 6 -> IF v # VA_ATTRIB_NOT_SUPPORTED
                    THEN [caps EXCEPT !.quality_levels = ToInt32(v)] ELSE caps
      [] k = 7 -> IF v # VA_ATTRIB_NOT_SUPPORTED
                    THEN [caps EXCEPT !.packed_headers = v] ELSE caps

\* lines 276..313: what attribute k (1..7, attrs[k-1]) with value v does to *caps
StoreAttr(caps, k, v) ==
    CASE k = 1 -> IF v # VA_ATTRIB_NOT_SUPPORTED
                    THEN [caps EXCEPT !.rate_control_modes = v] ELSE caps
      [] k = 2 -> IF v # VA_ATTRIB_NOT_SUPPORTED
                    THEN [caps EXCEPT !.max_width = ToInt32(v)] ELSE caps
      [] k = 3 -> IF v # VA_ATTRIB_NOT_SUPPORTED
                    THEN [caps EXCEPT !.max_height = ToInt32(v)] ELSE caps
      [] k = 4 -> IF v # VA_ATTRIB_NOT_SUPPORTED
                    THEN [caps EXCEPT !.supports_10bit =
                             IF BitSet(v, VA_RT_FORMAT_YUV420_10) THEN 1 ELSE 0]
                    ELSE caps
      [] k = 5 -> IF v # VA_ATTRIB_NOT_SUPPORTED /\ v > 1
                    THEN [caps EXCEPT !.supports_bframes = IF v > 2 THEN 1 ELSE 0]
                    ELSE caps
      [] k = 6 -> IF v # VA_ATTRIB_NOT_SUPPORTED
                    THEN [caps EXCEPT !.quality_levels = ToInt32(v)] ELSE caps
      [] k = 7 -> IF v # VA_ATTRIB_NOT_SUPPORTED
                    THEN [caps EXCEPT !.packed_headers = v] ELSE caps

\* lines 276..278, 299..303: the probe of family f looks at the value v of
\* attribute k; the rate-control mask and the reference-frame count it was given
\* are remembered per family
Read(s, f, k, v) ==
    IF v = VA_ATTRIB_NOT_SUPPORTED THEN s
    ELSE IF k = 1 THEN [s EXCEPT ![f].rc = v]
    ELSE IF k = 5 THEN [s EXCEPT ![f].refs = v]
    ELSE s

\* lines 243..261: vaQueryConfigEntrypoints and the scan for an encode entrypoint
query_vaapi_capabilities_entry(t) ==
    /\ At(t, "query_vaapi_capabilities", "entry")
    /\ \E ok \in BOOLEAN, scan \in ScanEntrypoints :
          /\ ev' = Indexed(Ev("vaQueryConfigEntrypoints", t, Top(t).arg, probe[t].i, ok),
                           IF ok THEN scan.idx ELSE -1)
          /\ IF ok /\ scan.found
               THEN Goto(t, "attrs") /\ UNCHANGED <<ret, call>>
               ELSE Return(t, 0)
    /\ UNCHANGED <<cacheA, cacheC, env, seen, probe, attrs, first_ret>>

\* lines 264..274: vaGetConfigAttributes for VAEntrypointEncSlice
query_vaapi_capabilities_attrs(t) ==
    /\ At(t, "query_vaapi_capabilities", "attrs")
    /\ \E ok \in BOOLEAN, values \in AttrVectors :
          /\ ev' = ForEntrypoint(Ev("vaGetConfigAttributes", t, Top(t).arg, probe[t].i, ok),
                                 "EncSlice")
          /\ IF ok
               THEN /\ attrs' = [attrs EXCEPT ![t] = [k |-> 1, v |-> values]]
                    /\ Goto(t, "store")
                    /\ UNCHANGED <<ret, call>>
               ELSE Return(t, 0) /\ UNCHANGED attrs
    /\ UNCHANGED <<cacheA, cacheC, env, seen, probe, first_ret>>

\* lines 276..313: the seven conditional stores into *caps, one per step
query_vaapi_capabilities_store(t) ==
    /\ At(t, "query_vaapi_capabilities", "store")
    /\ IF Top(t).arg \in {"H264Main", "H264High"}
         THEN /\ h264_caps' = StoreAttr(h264_caps, attrs[t].k, attrs[t].v[attrs[t].k])
              /\ UNCHANGED h265_caps
         ELSE /\ h265_caps' = StoreAttr(h265_caps, attrs[t].k, attrs[t].v[attrs[t].k])
              /\ UNCHANGED h264_caps
    /\ IF attrs[t].k = 7
         THEN Return(t, 0) /\ attrs' = [attrs EXCEPT ![t] = NoAttrs]
         ELSE /\ attrs' = [attrs EXCEPT ![t].k = @ + 1]
              /\ UNCHANGED <<stack, ret, call>>
    /\ seen' = Read(seen, FamilyOfProfile(Top(t).arg), attrs[t].k, attrs[t].v[attrs[t].k])
    /\ ev' = Logs(NoEv, IF attrs[t].k = 7 THEN {"Capabilities"} ELSE {})
    /\ UNCHANGED <<is_h264_available, is_h265_available, is_h265_10bit_available,
                   vaapi_available, cacheC, env, probe, first_ret>>

-----------------------------------------------------------------------------
(* The per-family availability functions, lines 321..357 *)

capsUnch == UNCHANGED <<h264_caps, h265_caps>>

\* mutant: the sentinel is not consulted, every call probes again
hb_vaapi_h264_available_entry_always(t) ==
    /\ At(t, "hb_vaapi_h264_available", "entry")
    /\ CallFn(t, "main", "check_vaapi_codec_support", "H264Main")
    /\ ev' = NoEv
    /\ UNCHANGED <<cacheA, cacheC, env, seen, ret, probe, attrs, call, first_ret>>

\* line 323: the sentinel test
hb_vaapi_h264_available_entry(t) ==
    /\ At(t, "hb_vaapi_h264_available", "entry")
    /\ IF is_h264_available = -1
         THEN CallFn(t, "main", "check_vaapi_codec_support", "H264Main")
         ELSE Goto(t, "return")
    /\ ev' = NoEv
    /\ UNCHANGED <<cacheA, cacheC, env, seen, ret, probe, attrs, call, first_ret>>

\* mutant: only the H264 Main profile is probed
hb_vaapi_h264_available_main_only(t) ==
    /\ At(t, "hb_vaapi_h264_available", "main")
    /\ is_h264_available' = (IF ret[t] # 0 THEN 1 ELSE 0)
    /\ Goto(t, "return")
    /\ ev' = NoEv
    /\ capsUnch
    /\ UNCHANGED <<is_h265_available, is_h265_10bit_available, vaapi_available,
                   cacheC, env, seen, ret, probe, attrs, call, first_ret>>

\* lines 327..328: check(Main) || ..., short-circuited
hb_vaapi_h264_available_main(t) ==
    /\ At(t, "hb_vaapi_h264_available", "main")
    /\ IF ret[t] # 0
         THEN is_h264_available' = 1 /\ Goto(t, "return")
         ELSE /\ CallFn(t, "high", "check_vaapi_codec_support", "H264High")
              /\ UNCHANGED is_h264_available
    /\ ev' = NoEv
    /\ capsUnch
    /\ UNCHANGED <<is_h265_available, is_h265_10bit_available, vaapi_available,
                   cacheC, env, seen, ret, probe, attrs, call, first_ret>>

\* lines 327..328: ... || check(High), stored
hb_vaapi_h264_available_high(t) ==
    /\ At(t, "hb_vaapi_h264_available", "high")
    /\ is_h264_available' = (IF ret[t] # 0 THEN 1 ELSE 0)
    /\ Goto(t, "return")
    /\ ev' = NoEv
    /\ capsUnch
    /\ UNCHANGED <<is_h265_available, is_h265_10bit_available, vaapi_available,
                   cacheC, env, seen, ret, probe, attrs, call, first_ret>>

\* line 331
hb_vaapi_h264_available_return(t) ==
    /\ At(t, "hb_vaapi_h264_available", "return")
    /\ Return(t, is_h264_available)
    /\ NoteFirst("hb_vaapi_h264_available", is_h264_available)
    /\ ev' = NoEv
    /\ UNCHANGED <<cacheA, cacheC, env, seen, probe, attrs>>

\* mutant: the cached value is ignored, every call probes again
hb_vaapi_h265_available_entry_always(t) ==
    /\ At(t, "hb_vaapi_h265_available", "entry")
    /\ CallFn(t, "store", "check_vaapi_codec_support", "HEVCMain")
    /\ ev' = NoEv
    /\ UNCHANGED <<cacheA, cacheC, env, seen, ret, probe, attrs, call, first_ret>>

\* line 336
hb_vaapi_h265_available_entry(t) ==
    /\ At(t, "hb_vaapi_h265_available", "entry")
    /\ IF is_h265_available = -1
         THEN CallFn(t, "store", "check_vaapi_codec_support", "HEVCMain")
         ELSE Goto(t, "return")
    /\ ev' = NoEv
    /\ UNCHANGED <<cacheA, cacheC, env, seen, ret, probe, attrs, call, first_ret>>

\* line 340
hb_vaapi_h265_available_store(t) ==
    /\ At(t, "hb_vaapi_h265_available", "store")
    /\ is_h265_available' = ret[t]
    /\ Goto(t, "return")
    /\ ev' = NoEv
    /\ capsUnch
    /\ UNCHANGED <<is_h264_available, is_h265_10bit_available, vaapi_available,
                   cacheC, env, seen, ret, probe, attrs, call, first_ret>>

\* line 343
hb_vaapi_h265_available_return(t) ==
    /\ At(t, "hb_vaapi_h265_available", "return")
    /\ Return(t, is_h265_available)
    /\ NoteFirst("hb_vaapi_h265_available", is_h265_available)
    /\ ev' = NoEv
    /\ UNCHANGED <<cacheA, cacheC, env, seen, probe, attrs>>

\* line 350
hb_vaapi_h265_10bit_available_entry(t) ==
    /\ At(t, "hb_vaapi_h265_10bit_available", "entry")
    /\ IF is_h265_10bit_available = -1
         THEN CallFn(t, "store", "check_vaapi_codec_support", "HEVCMain10")
         ELSE Goto(t, "return")
    /\ ev' = NoEv
    /\ UNCHANGED <<cacheA, cacheC, env, seen, ret, probe, attrs, call, first_ret>>

\* line 353
hb_vaapi_h265_10bit_available_store(t) ==
    /\ At(t, "hb_vaapi_h265_10bit_available", "store")
    /\ is_h265_10bit_available' = ret[t]
    /\ Goto(t, "return")
    /\ ev' = NoEv
    /\ capsUnch
    /\ UNCHANGED <<is_h264_available, is_h265_available, vaapi_available,
                   cacheC, env, seen, ret, probe, attrs, call, first_ret>>

\* line 356
hb_vaapi_h265_10bit_available_return(t) ==
    /\ At(t, "hb_vaapi_h265_10bit_available", "return")
    /\ Return(t, is_h265_10bit_available)
    /\ NoteFirst("hb_vaapi_h265_10bit_available", is_h265_10bit_available)
    /\ ev' = NoEv
    /\ UNCHANGED <<cacheA, cacheC, env, seen, probe, attrs>>

-----------------------------------------------------------------------------
(* The capability queries, lines 359..481: what each returns from the cells *)

IsH265Codec(vcodec) == vcodec \in {"VAAPI_H265", "VAAPI_H265_10BIT"}

hb_vaapi_supports_bframes(vcodec) ==
    IF vcodec = "VAAPI_H264" THEN (IF h264_caps.supports_bframes > 0 THEN 1 ELSE 0)
    ELSE IF IsH265Codec(vcodec) THEN (IF h265_caps.supports_bframes > 0 THEN 1 ELSE 0)
    ELSE 0

\* mutant: the stored width is returned without the "> 0" test
hb_vaapi_get_max_width_raw(vcodec) ==
    IF vcodec = "VAAPI_H264" THEN h264_caps.max_width
    ELSE IF IsH265Codec(vcodec) THEN h265_caps.max_width
    ELSE DefaultMaxOther

hb_vaapi_get_max_width(vcodec) ==
    IF vcodec = "VAAPI_H264"
      THEN (IF h264_caps.max_width > 0 THEN h264_caps.max_width ELSE DefaultMaxH264)
    ELSE IF IsH265Codec(vcodec)
      THEN (IF h265_caps.max_width > 0 THEN h265_caps.max_width ELSE DefaultMaxH265)
    ELSE DefaultMaxOther

hb_vaapi_get_max_height(vcodec) ==
    IF vcodec = "VAAPI_H264"
      THEN (IF h264_caps.max_height > 0 THEN h264_caps.max_height ELSE DefaultMaxH264)
    ELSE IF IsH265Codec(vcodec)
      THEN (IF h265_caps.max_height > 0 THEN h265_caps.max_height ELSE DefaultMaxH265)
    ELSE DefaultMaxOther

RcBit(vcodec, bit) ==
    IF vcodec = "VAAPI_H264"
      THEN (IF BitSet(h264_caps.rate_control_modes, bit) THEN 1 ELSE 0)
    ELSE IF IsH265Codec(vcodec)
      THEN (IF BitSet(h265_caps.rate_control_modes, bit) THEN 1 ELSE 0)
    ELSE 0

hb_vaapi_supports_cqp(vcodec) == RcBit(vcodec, VA_RC_CQP)
hb_vaapi_supports_vbr(vcodec) == RcBit(vcodec, VA_RC_VBR)
hb_vaapi_supports_cbr(vcodec) == RcBit(vcodec, VA_RC_CBR)

hb_vaapi_get_rc_modes(vcodec) ==
    IF vcodec = "VAAPI_H264" THEN h264_caps.rate_control_modes
    ELSE IF IsH265Codec(vcodec) THEN h265_caps.rate_control_modes
    ELSE 0

CapResult(fn, vcodec) ==
    CASE fn = "hb_vaapi_supports_bframes" -> hb_vaapi_supports_bframes(vcodec)
      [] fn = "hb_vaapi_get_max_width" -> hb_vaapi_get_max_width(vcodec)
      [] fn = "hb_vaapi_get_max_height" -> hb_vaapi_get_max_height(vcodec)
      [] fn = "hb_vaapi_supports_cqp" -> hb_vaapi_supports_cqp(vcodec)
      [] fn = "hb_vaapi_supports_vbr" -> hb_vaapi_supports_vbr(vcodec)
      [] fn = "hb_vaapi_supports_cbr" -> hb_vaapi_supports_cbr(vcodec)
      [] fn = "hb_vaapi_get_rc_modes" -> hb_vaapi_get_rc_modes(vcodec)

\* mutant: the H.264 probe is run before the vcodec is looked at
capability_query_entry_probes(t) ==
    /\ ~Idle(t) /\ Top(t).fn \in CapFns /\ Top(t).pc = "entry"
    /\ IF IsH265Codec(Top(t).arg)
         THEN CallFn(t, "read", "hb_vaapi_h265_available", "-")
         ELSE CallFn(t, "read", "hb_vaapi_h264_available", "-")
    /\ UNCHANGED <<ret, call>>
    /\ ev' = NoEv
    /\ UNCHANGED <<cacheA, cacheC, env, seen, probe, attrs, first_ret>>

\* the vcodec test of a capability query: "ensure capabilities are queried" by
\* calling hb_vaapi_h264_available or hb_vaapi_h265_available, or return the default
capability_query_entry(t) ==
    /\ ~Idle(t) /\ Top(t).fn \in CapFns /\ Top(t).pc = "entry"
    /\ IF Top(t).arg = "VAAPI_H264"
         THEN CallFn(t, "read", "hb_vaapi_h264_available", "-") /\ UNCHANGED <<ret, call>>
         ELSE IF IsH265Codec(Top(t).arg)
           THEN CallFn(t, "read", "hb_vaapi_h265_available", "-") /\ UNCHANGED <<ret, call>>
           ELSE Return(t, CapResult(Top(t).fn, Top(t).arg))
    /\ ev' = NoEv
    /\ UNCHANGED <<cacheA, cacheC, env, seen, probe, attrs, first_ret>>

\* the read of the capability cell and the return
capability_query_read(t) ==
    /\ ~Idle(t) /\ Top(t).fn \in CapFns /\ Top(t).pc = "read"
    /\ Return(t, CapResult(Top(t).fn, Top(t).arg))
    /\ ev' = Ev("read_caps", t, Top(t).arg, 0, TRUE)
    /\ UNCHANGED <<cacheA, cacheC, env, seen, probe, attrs, first_ret>>

-----------------------------------------------------------------------------
(* hb_vaapi_available, lines 573..585 *)

availUnch == UNCHANGED <<is_h264_available, is_h265_available,
                         is_h265_10bit_available, h264_caps, h265_caps>>

\* line 577
hb_vaapi_available_entry(t) ==
    /\ At(t, "hb_vaapi_available", "entry")
    /\ IF vaapi_available = -1
         THEN CallFn(t, "h264", "hb_vaapi_h264_available", "-")
         ELSE Goto(t, "return")
    /\ ev' = NoEv
    /\ UNCHANGED <<cacheA, cacheC, env, seen, ret, probe, attrs, call, first_ret>>

\* mutant: the result of the H.264 family alone is cached as the overall result
hb_vaapi_available_h264_only(t) ==
    /\ At(t, "hb_vaapi_available", "h264")
    /\ vaapi_available' = (IF ret[t] # 0 THEN 1 ELSE 0)
    /\ Goto(t, "return")
    /\ ev' = NoEv
    /\ UNCHANGED <<is_h264_available, is_h265_available,
                   is_h265_10bit_available, h264_caps, h265_caps>>
    /\ UNCHANGED <<cacheC, env, seen, ret, probe, attrs, call, first_ret>>

\* line 580
hb_vaapi_available_h264(t) ==
    /\ At(t, "hb_vaapi_available", "h264")
    /\ IF ret[t] # 0
         THEN vaapi_available' = 1 /\ Goto(t, "return")
         ELSE /\ CallFn(t, "h265", "hb_vaapi_h265_available", "-")
              /\ UNCHANGED vaapi_available
    /\ ev' = NoEv
    /\ availUnch
    /\ UNCHANGED <<cacheC, env, seen, ret, probe, attrs, call, first_ret>>

\* line 581
hb_vaapi_available_h265(t) ==
    /\ At(t, "hb_vaapi_available", "h265")
    /\ IF ret[t] # 0
         THEN vaapi_available' = 1 /\ Goto(t, "return")
         ELSE /\ CallFn(t, "h265_10bit", "hb_vaapi_h265_10bit_available", "-")
              /\ UNCHANGED vaapi_available
    /\ ev' = NoEv
    /\ availUnch
    /\ UNCHANGED <<cacheC, env, seen, ret, probe, attrs, call, first_ret>>

\* line 582
hb_vaapi_available_h265_10bit(t) ==
    /\ At(t, "hb_vaapi_available", "h265_10bit")
    /\ vaapi_available' = (IF ret[t] # 0 THEN 1 ELSE 0)
    /\ Goto(t, "return")
    /\ ev' = NoEv
    /\ availUnch
    /\ UNCHANGED <<cacheC, env, seen, ret, probe, attrs, call, first_ret>>

\* line 584
hb_vaapi_available_return(t) ==
    /\ At(t, "hb_vaapi_available", "return")
    /\ Return(t, vaapi_available)
    /\ NoteFirst("hb_vaapi_available", vaapi_available)
    /\ ev' = NoEv
    /\ UNCHANGED <<cacheA, cacheC, env, seen, probe, attrs>>

-----------------------------------------------------------------------------
(* Specification of the lazy cache, calls made one after another *)

ApiCalls == {<<fn, "-">> : fn \in AvailFns} \cup (CapFns \X VCodecs)

Invoke(t) ==
    /\ \E c \in ApiCalls : Enter(t, c[1], c[2])
    /\ UNCHANGED <<cacheA, cacheC, env, seen, probe, attrs, first_ret>>

SeqInvoke(t) == AllIdle /\ Invoke(t)

StepA(t) ==
    \/ check_vaapi_codec_support_entry(t)
    \/ check_vaapi_codec_support_open(t)
    \/ check_vaapi_codec_support_drm(t)
    \/ check_vaapi_codec_support_dpy(t)
    \/ check_vaapi_codec_support_init(t)
    \/ check_vaapi_codec_support_profiles(t)
    \/ check_vaapi_codec_support_caps(t)
    \/ check_vaapi_codec_support_term(t)
    \/ check_vaapi_codec_support_close(t)
    \/ check_vaapi_codec_support_exhausted(t)
    \/ query_vaapi_capabilities_entry(t)
    \/ query_vaapi_capabilities_attrs(t)
    \/ query_vaapi_capabilities_store(t)
    \/ hb_vaapi_h264_available_entry(t)
    \/ hb_vaapi_h264_available_main(t)
    \/ hb_vaapi_h264_available_high(t)
    \/ hb_vaapi_h264_available_return(t)
    \/ hb_vaapi_h265_available_entry(t)
    \/ hb_vaapi_h265_available_store(t)
    \/ hb_vaapi_h265_available_return(t)
    \/ hb_vaapi_h265_10bit_available_entry(t)
    \/ hb_vaapi_h265_10bit_available_store(t)
    \/ hb_vaapi_h265_10bit_available_return(t)
    \/ capability_query_entry(t)
    \/ capability_query_read(t)
    \/ hb_vaapi_available_entry(t)
    \/ hb_vaapi_available_h264(t)
    \/ hb_vaapi_available_h265(t)
    \/ hb_vaapi_available_h265_10bit(t)
    \/ hb_vaapi_available_return(t)

Next ==
    \/ SeqInvoke(MainThread)
    \/ StepA(MainThread)
    \/ SetHardwareDisabled

Spec == Init /\ [][Next]_vars

-----------------------------------------------------------------------------
(* The lazy cache called by a caller that keeps running (SpecTermination):   *)
(* a thread inside a function takes its next step, and every system or       *)
(* library call returns.  The calls are the availability functions and one   *)
(* capability query for every encoder value.                                 *)

TerminationCalls == {<<fn, "-">> : fn \in AvailFns}
                        \cup ({"hb_vaapi_get_max_width"} \X VCodecs)

InvokeTermination(t) ==
    /\ \E c \in TerminationCalls : Enter(t, c[1], c[2])
    /\ UNCHANGED <<cacheA, cacheC, env, seen, probe, attrs, first_ret>>

NextTermination ==
    \/ AllIdle /\ InvokeTermination(MainThread)
    \/ StepA(MainThread)
    \/ SetHardwareDisabled

SpecTermination == Init /\ [][NextTermination]_vars /\ WF_vars(StepA(MainThread))

-----------------------------------------------------------------------------
(* Claims about the lazy cache under sequential calls (Spec) *)

AvailCell(f) ==
    CASE f = "H264" -> is_h264_available
      [] f = "H265" -> is_h265_available
      [] f = "H265_10BIT" -> is_h265_10bit_available

FirstReturned(f) == first_ret[AvailFnOfFamily(f)].set

\* C1: for each family the probe is started at most once: once the family's
\* availability function has returned for the first time, no thread is inside
\* check_vaapi_codec_support for a profile of that family and no step opens a
\* device, queries a driver, creates a display or initialises VA for it.
C1_ProbeAtMostOnce ==
    /\ \A t \in Threads : \A k \in 1..Len(stack[t]) :
          stack[t][k].fn = "check_vaapi_codec_support"
             => ~FirstReturned(FamilyOfProfile(stack[t][k].arg))
    /\ ev.op \in DeviceOps => ~FirstReturned(FamilyOfProfile(ev.prof))

\* a later call of hb_vaapi_h264_available, made with the hardware enabled,
\* has returned the cached 1 without opening any device
C1_Witness ==
    /\ call[MainThread].done
    /\ call[MainThread].fn = "hb_vaapi_h264_available"
    /\ ~call[MainThread].dis
    /\ ~call[MainThread].opened
    /\ call[MainThread].ret = 1

\* C5 (as claimed): an availability function entered while the hardware-disabled
\* flag is set returns 0 and makes no open() attempt.
C5_DisabledMeansUnavailable ==
    \A t \in Threads :
       (call[t].done /\ call[t].fn \in AvailFns /\ call[t].dis)
          => (call[t].ret = 0 /\ ~call[t].opened)

\* C7: hb_vaapi_available returns true iff some family predicate returns true:
\* a cached or returned 1 has a family cell at 1, a cached or returned 0 has
\* all three family cells computed and 0.
AnyFamilyAvailable == \E f \in Families : AvailCell(f) = 1
NoFamilyAvailable == \A f \in Families : AvailCell(f) = 0
C7_OverallIffAnyFamily ==
    /\ vaapi_available # -1
          => /\ vaapi_available \in {0, 1}
             /\ vaapi_available = 1 <=> AnyFamilyAvailable
             /\ vaapi_available = 0 <=> NoFamilyAvailable
    /\ \A t \in Threads :
          (call[t].done /\ call[t].fn = "hb_vaapi_available")
             => /\ call[t].ret # 0 <=> AnyFamilyAvailable
                /\ call[t].ret = 0 <=> NoFamilyAvailable

\* hb_vaapi_available has returned 1 after the H.264 probe failed and the H.265
\* probe succeeded; the 10-bit family was short-circuited and is still unknown
C7_Witness ==
    /\ call[MainThread].done
    /\ call[MainThread].fn = "hb_vaapi_available"
    /\ call[MainThread].ret = 1
    /\ is_h264_available = 0
    /\ is_h265_available = 1
    /\ is_h265_10bit_available = -1

\* C8: every completed call of an availability function returned the value
\* that function returned the first time.
C8_AvailabilityIdempotent ==
    \A t \in Threads :
       (call[t].done /\ call[t].fn \in AvailFns)
          => /\ first_ret[call[t].fn].set
             /\ call[t].ret = first_ret[call[t].fn].val

\* a repeated call of hb_vaapi_h265_available, entered with the hardware
\* disabled, has returned the 1 of the first call
C8_Witness ==
    /\ call[MainThread].done
    /\ call[MainThread].fn = "hb_vaapi_h265_available"
    /\ call[MainThread].dis
    /\ call[MainThread].ret = 1
    /\ first_ret["hb_vaapi_h265_available"].val = 1

\* what the capability queries of vcodec return from the cells as they are
CapValues(vcodec) == [fn \in CapFns |-> CapResult(fn, vcodec)]

\* lines 361..370: the family whose availability function a capability query
\* of vcodec calls before it reads the cell
QueryFamily(vcodec) == IF vcodec = "VAAPI_H264" THEN "H264" ELSE "H265"

\* C9 (as claimed): once a family's availability has been computed (and the
\* capability queries of its vcodec no longer probe), no step changes what the
\* capability queries of that family return.
C9_CapabilitiesStable ==
    [][\A v \in vaapi_encoders :
          (AvailCell(FamilyOfCodec(v)) # -1 /\ AvailCell(QueryFamily(v)) # -1)
             => CapValues(v)' = CapValues(v)]_vars

\* the cell a capability query of vcodec reads
MaxWidthCell(vcodec) ==
    IF vcodec = "VAAPI_H264" THEN h264_caps.max_width
    ELSE IF vcodec \in {"VAAPI_H265", "VAAPI_H265_10BIT"} THEN h265_caps.max_width
    ELSE 0
MaxHeightCell(vcodec) ==
    IF vcodec = "VAAPI_H264" THEN h264_caps.max_height
    ELSE IF vcodec \in {"VAAPI_H265", "VAAPI_H265_10BIT"} THEN h265_caps.max_height
    ELSE 0
Fallback(vcodec) ==
    IF vcodec = "VAAPI_H264" THEN DefaultMaxH264
    ELSE IF vcodec \in {"VAAPI_H265", "VAAPI_H265_10BIT"} THEN DefaultMaxH265
    ELSE DefaultMaxOther

\* C10: hb_vaapi_get_max_width and hb_vaapi_get_max_height return a value
\* greater than 0: the value of the cell when that is positive, and the
\* fallback constant when it is not (0, never stored, or negative as an int).
C10_MaxDimensionPositive ==
    \A t \in Threads :
       /\ (call[t].done /\ call[t].fn = "hb_vaapi_get_max_width")
             => /\ call[t].ret > 0
                /\ MaxWidthCell(call[t].arg) > 0 => call[t].ret = MaxWidthCell(call[t].arg)
                /\ MaxWidthCell(call[t].arg) <= 0 => call[t].ret = Fallback(call[t].arg)
       /\ (call[t].done /\ call[t].fn = "hb_vaapi_get_max_height")
             => /\ call[t].ret > 0
                /\ MaxHeightCell(call[t].arg) > 0 => call[t].ret = MaxHeightCell(call[t].arg)
                /\ MaxHeightCell(call[t].arg) <= 0 => call[t].ret = Fallback(call[t].arg)

\* hb_vaapi_get_max_width has returned the fallback for an available H.264
\* family whose stored width is negative
C10_Witness ==
    /\ call[MainThread].done
    /\ call[MainThread].fn = "hb_vaapi_get_max_width"
    /\ call[MainThread].arg = "VAAPI_H264"
    /\ is_h264_available = 1
    /\ h264_caps.max_width < 0
    /\ call[MainThread].ret = DefaultMaxH264

\* C11 (as claimed): without a positive measurement hb_vaapi_get_max_width and
\* hb_vaapi_get_max_height return 4096 for H264 and for H265, and 8192 for
\* H265_10BIT.
C11_FallbackPerFamily ==
    \A t \in Threads :
       /\ (/\ call[t].done /\ call[t].fn = "hb_vaapi_get_max_width"
           /\ call[t].arg \in vaapi_encoders /\ MaxWidthCell(call[t].arg) <= 0)
             => call[t].ret = (IF call[t].arg = "VAAPI_H265_10BIT" THEN 8192 ELSE 4096)
       /\ (/\ call[t].done /\ call[t].fn = "hb_vaapi_get_max_height"
           /\ call[t].arg \in vaapi_encoders /\ MaxHeightCell(call[t].arg) <= 0)
             => call[t].ret = (IF call[t].arg = "VAAPI_H265_10BIT" THEN 8192 ELSE 4096)

RcFns == {"hb_vaapi_supports_cqp", "hb_vaapi_supports_vbr", "hb_vaapi_supports_cbr"}

\* C12 (as claimed): a rate-control query of a family whose availability
\* function returns false returns false.
C12_UnavailableSupportsNothing ==
    \A t \in Threads :
       (/\ call[t].done /\ call[t].fn \in RcFns
        /\ call[t].arg \in vaapi_encoders
        /\ AvailCell(FamilyOfCodec(call[t].arg)) = 0)
          => call[t].ret = 0

\* lines 419..481: the rate-control mask the queries of vcodec report
ReportedRcModes(vcodec) == hb_vaapi_get_rc_modes(vcodec)

\* the step is a store of query_vaapi_capabilities made by a probe of a profile
\* of family f
StoreForFamily(f) ==
    \E t \in Threads :
       /\ At(t, "query_vaapi_capabilities", "store")
       /\ FamilyOfProfile(Top(t).arg) = f
       /\ stack'[t] # stack[t] \/ attrs'[t] # attrs[t]

\* C13 (as claimed): the rate-control bits reported for a family come from a
\* rate-control attribute query made for that family's own profile: what the
\* queries of a vcodec report changes only in a store of a probe of a profile
\* of that vcodec's family.
C13_RcModesFromOwnProfile ==
    [][\A v \in vaapi_encoders :
          ReportedRcModes(v)' # ReportedRcModes(v) => StoreForFamily(FamilyOfCodec(v))]_vars

\* C29: every call of an availability or capability function returns; the
\* opens of a probe are of the four candidates of render_nodes.
C29_CallsReturn ==
    /\ \A t \in Threads : ~Idle(t) ~> Idle(t)
    /\ [](ev.op = "open" => ev.node \in 1..4)

\* hb_vaapi_h264_available has returned 0 after a probe whose fourth and last
\* open failed
C29_Witness ==
    /\ call[MainThread].done
    /\ call[MainThread].fn = "hb_vaapi_h264_available"
    /\ call[MainThread].opened
    /\ call[MainThread].ret = 0
    /\ is_h264_available = 0
    /\ ~hw_disabled

\* C30: a capability query for a vcodec that is none of the three VAAPI
\* encoders returns 0 (4096 for hb_vaapi_get_max_width and
\* hb_vaapi_get_max_height), calls no availability function and so opens no
\* device, and no availability or capability cell changes during the call.
C30_OtherCodecDefaults ==
    /\ [](\A t \in Threads :
            (call[t].fn \in CapFns /\ call[t].arg \notin vaapi_encoders)
                => /\ ~call[t].opened
                   /\ Len(stack[t]) <= 1
                   /\ call[t].done =>
                        call[t].ret =
                            (IF call[t].fn \in {"hb_vaapi_get_max_width",
                                                "hb_vaapi_get_max_height"}
                               THEN 4096 ELSE 0))
    /\ [][(\E t \in Threads : /\ ~Idle(t)
                               /\ call[t].fn \in CapFns
                               /\ call[t].arg \notin vaapi_encoders)
            => cacheA' = cacheA]_vars

\* hb_vaapi_get_max_width has returned 4096 for the x264 encoder while the
\* H.264 family is still unprobed
C30_Witness ==
    /\ call[MainThread].done
    /\ call[MainThread].fn = "hb_vaapi_get_max_width"
    /\ call[MainThread].arg = "X264"
    /\ call[MainThread].ret = 4096
    /\ is_h264_available = -1
    /\ h264_caps = hb_vaapi_caps_t_init

\* lines 424, 440, 456: the bit of the rate-control mask each predicate tests
RcBitOf(fn) ==
    CASE fn = "hb_vaapi_supports_cqp" -> VA_RC_CQP
      [] fn = "hb_vaapi_supports_vbr" -> VA_RC_VBR
      [] fn = "hb_vaapi_supports_cbr" -> VA_RC_CBR

\* C23 (as claimed): for a family whose probe read a rate-control bitmask, each
\* of hb_vaapi_supports_cqp, hb_vaapi_supports_vbr and hb_vaapi_supports_cbr
\* returns the membership of its own bit in the bitmask that probe read (only
\* the CBR bit read: false, false, true).
C23_RcPredicatesTestOwnBit ==
    \A t \in Threads :
       (/\ call[t].done /\ call[t].fn \in RcFns
        /\ call[t].arg \in vaapi_encoders
        /\ seen[FamilyOfCodec(call[t].arg)].rc # -1)
          => call[t].ret =
                (IF BitSet(seen[FamilyOfCodec(call[t].arg)].rc, RcBitOf(call[t].fn))
                   THEN 1 ELSE 0)

\* C24 (as claimed): for a family whose probe read the max reference-frame
\* attribute r, hb_vaapi_supports_bframes returns true when r > 2 and false when
\* r <= 2; when the attribute was never read or was reported not supported it
\* returns false.
C24_BframesFromReferenceFrames ==
    \A t \in Threads :
       (/\ call[t].done /\ call[t].fn = "hb_vaapi_supports_bframes"
        /\ call[t].arg \in vaapi_encoders)
          => call[t].ret = (IF seen[FamilyOfCodec(call[t].arg)].refs > 2 THEN 1 ELSE 0)

-----------------------------------------------------------------------------
(* The lazy cache called from two threads at once (SpecConc).  The machine   *)
(* has one device node, /dev/dri/renderD128, and the threads call            *)
(* hb_vaapi_h264_available and the H.264 capability queries.                 *)

ConcCalls == {<<"hb_vaapi_h264_available", "-">>,
              <<"hb_vaapi_get_max_height", "VAAPI_H264">>}

InvokeConc(t) ==
    /\ \E c \in ConcCalls : Enter(t, c[1], c[2])
    /\ UNCHANGED <<cacheA, cacheC, env, seen, probe, attrs, first_ret>>

StepConc(t) ==
    \/ check_vaapi_codec_support_entry(t)
    \/ check_vaapi_codec_support_open(t)
    \/ check_vaapi_codec_support_drm(t)
    \/ check_vaapi_codec_support_dpy(t)
    \/ check_vaapi_codec_support_init(t)
    \/ check_vaapi_codec_support_profiles(t)
    \/ check_vaapi_codec_support_caps(t)
    \/ check_vaapi_codec_support_term(t)
    \/ check_vaapi_codec_support_close(t)
    \/ check_vaapi_codec_support_exhausted(t)
    \/ query_vaapi_capabilities_entry(t)
    \/ query_vaapi_capabilities_attrs(t)
    \/ query_vaapi_capabilities_store(t)
    \/ hb_vaapi_h264_available_entry(t)
    \/ hb_vaapi_h264_available_main(t)
    \/ hb_vaapi_h264_available_high(t)
    \/ hb_vaapi_h264_available_return(t)
    \/ capability_query_entry(t)
    \/ capability_query_read(t)

NextConc ==
    \/ \E t \in Threads : InvokeConc(t)
    \/ \E t \in Threads : StepConc(t)
    \/ SetHardwareDisabled

InitConc == Boot({1})

SpecConc == InitConc /\ [][NextConc]_vars


-----------------------------------------------------------------------------
(* Claims about the lazy cache under concurrent calls (SpecConc) *)

\* thread t holds an open device in a probe for family f
HoldsDevice(t, f) ==
    /\ \E k \in 1..Len(stack[t]) :
          /\ stack[t][k].fn = "check_vaapi_codec_support"
          /\ FamilyOfProfile(stack[t][k].arg) = f
    /\ probe[t].fd

\* C2 (as claimed): no two threads run the device probing of the same family:
\* at no time do two threads hold a device opened for the same family.
C2_SingleProbe ==
    \A f \in Families : \A t1, t2 \in Threads :
       (HoldsDevice(t1, f) /\ HoldsDevice(t2, f)) => t1 = t2

\* attribute k with value v is stored by query_vaapi_capabilities
Stores(k, v) == v # VA_ATTRIB_NOT_SUPPORTED /\ (k = 5 => v > 1)

\* lines 276..313: the field of *caps that attribute k is stored in
AttrField(k) ==
    CASE k = 1 -> "rate_control_modes"
      [] k = 2 -> "max_width"
      [] k = 3 -> "max_height"
      [] k = 4 -> "supports_10bit"
      [] k = 5 -> "supports_bframes"
      [] k = 6 -> "quality_levels"
      [] k = 7 -> "packed_headers"

\* thread t is between two stores of query_vaapi_capabilities into the cell of
\* vcodec: some attribute has been stored, and the field of another that is
\* still to be stored holds its initial default
PartlyStored(t, vcodec) ==
    /\ At(t, "query_vaapi_capabilities", "store")
    /\ (Top(t).arg \in {"H264Main", "H264High"}) <=> (vcodec = "VAAPI_H264")
    /\ \E j \in 1..(attrs[t].k - 1) : Stores(j, attrs[t].v[j])
    /\ \E j \in attrs[t].k..7 :
          /\ Stores(j, attrs[t].v[j])
          /\ caps_ptr(Top(t).arg)[AttrField(j)] = hb_vaapi_caps_t_init[AttrField(j)]

\* C3 (as claimed): a capability query never reads a cell that another thread's
\* probe has populated only in part.
C3_NoPartialRead ==
    ev.op = "read_caps"
       => \A t \in Threads : t # ev.t => ~PartlyStored(t, ev.prof)

-----------------------------------------------------------------------------
(* One-shot initialisation, lines 884..1200: check_profile_support *)

gUnch == UNCHANGED <<cacheA, cacheC, env, seen, attrs, first_ret>>

\* lines 983..991: the loop over render_nodes starts
check_profile_support_entry(t) ==
    /\ At(t, "check_profile_support", "entry")
    /\ probe' = [probe EXCEPT ![t].i = 1, ![t].has_profile = FALSE]
    /\ Goto(t, "open")
    /\ ev' = NoEv
    /\ UNCHANGED <<ret, call>>
    /\ gUnch

\* lines 993..995: open(render_nodes[i], O_RDWR)
check_profile_support_open(t) ==
    /\ At(t, "check_profile_support", "open")
    /\ \E ok \in OpenAnswers(probe[t].i) :
          /\ ev' = Ev("open", t, Top(t).arg, probe[t].i, ok)
          /\ IF ok
               THEN probe' = [probe EXCEPT ![t].fd = TRUE] /\ Goto(t, "drm")
               ELSE NextCandidate(t)
    /\ call' = [call EXCEPT ![t].opened = TRUE]
    /\ UNCHANGED ret
    /\ gUnch

\* lines 998..1011: drmGetVersion; a NULL version is not tested against the
\* allow-list and the device goes on to vaGetDisplayDRM
check_profile_support_drm(t) ==
    /\ At(t, "check_profile_support", "drm")
    /\ \E version \in DrmVersions :
          /\ ev' = Ev("drmGetVersion", t, Top(t).arg, probe[t].i, version # "NULL")
          /\ Goto(t, IF version = "NULL" \/ version \in SupportedDrivers
                       THEN "dpy" ELSE "close")
    /\ UNCHANGED <<ret, probe, call>>
    /\ gUnch

\* lines 1014..1019: vaGetDisplayDRM
check_profile_support_dpy(t) ==
    /\ At(t, "check_profile_support", "dpy")
    /\ \E ok \in DisplayAnswers :
          /\ ev' = Ev("vaGetDisplayDRM", t, Top(t).arg, probe[t].i, ok)
          /\ Goto(t, IF ok THEN "init" ELSE "close")
    /\ UNCHANGED <<ret, probe, call>>
    /\ gUnch

\* lines 1021..1022, 1049: vaInitialize
check_profile_support_init(t) ==
    /\ At(t, "check_profile_support", "init")
    /\ \E ok \in DisplayAnswers :
          /\ ev' = Ev("vaInitialize", t, Top(t).arg, probe[t].i, ok)
          /\ probe' = [probe EXCEPT ![t].dpy = ok]
          /\ Goto(t, IF ok THEN "usable_enc" ELSE "close")
    /\ UNCHANGED <<ret, call>>
    /\ gUnch

\* lines 1062..1063: vaapi_device_is_usable, vaGetConfigAttributes for EncSlice
vaapi_device_is_usable_enc(t) ==
    /\ At(t, "check_profile_support", "usable_enc")
    /\ \E ok \in BOOLEAN :
          /\ ev' = ForEntrypoint(Ev("vaGetConfigAttributes", t, Top(t).arg, probe[t].i, ok),
                                 "EncSlice")
          /\ Goto(t, IF ok THEN "profiles" ELSE "usable_vld")
    /\ UNCHANGED <<ret, probe, call>>
    /\ gUnch

\* lines 1065..1072, 1025..1030: vaapi_device_is_usable, the retry with VLD
vaapi_device_is_usable_vld(t) ==
    /\ At(t, "check_profile_support", "usable_vld")
    /\ \E ok \in BOOLEAN :
          /\ ev' = ForEntrypoint(Ev("vaGetConfigAttributes", t, Top(t).arg, probe[t].i, ok),
                                 "VLD")
          /\ Goto(t, IF ok THEN "profiles" ELSE "term")
    /\ UNCHANGED <<ret, probe, call>>
    /\ gUnch

\* lines 1033..1045: vaQueryConfigProfiles and the scan for the profile
check_profile_support_profiles(t) ==
    /\ At(t, "check_profile_support", "profiles")
    /\ \E scan \in ScanProfiles(Top(t).arg) :
          /\ probe' = [probe EXCEPT ![t].has_profile = scan.found]
          /\ ev' = Indexed(Ev("vaQueryConfigProfiles", t, Top(t).arg, probe[t].i, TRUE),
                           scan.idx)
    /\ Goto(t, "term")
    /\ UNCHANGED <<ret, call>>
    /\ gUnch

\* lines 1027, 1041, 1047: vaTerminate
check_profile_support_term(t) ==
    /\ At(t, "check_profile_support", "term")
    /\ probe' = [probe EXCEPT ![t].dpy = FALSE]
    /\ Goto(t, "close")
    /\ ev' = Ev("vaTerminate", t, Top(t).arg, probe[t].i, TRUE)
    /\ UNCHANGED <<ret, call>>
    /\ gUnch

\* lines 1008, 1017, 1028, 1042..1043, 1049: close(fd), then return 1 or continue
check_profile_support_close(t) ==
    /\ At(t, "check_profile_support", "close")
    /\ ev' = Ev("close", t, Top(t).arg, probe[t].i, TRUE)
    /\ IF probe[t].has_profile
         THEN Return(t, 1) /\ probe' = [probe EXCEPT ![t].fd = FALSE, ![t].i = 0,
                                                      ![t].has_profile = FALSE]
         ELSE CloseAndContinue(t) /\ UNCHANGED <<ret, call>>
    /\ gUnch

\* line 1052
check_profile_support_exhausted(t) ==
    /\ At(t, "check_profile_support", "exhausted")
    /\ Return(t, 0)
    /\ LeaveLoop(t)
    /\ ev' = NoEv
    /\ gUnch

-----------------------------------------------------------------------------
(* vaapi_init_capabilities, lines 962..978 *)

initUnch == UNCHANGED <<cacheA, env, seen, ret, probe, attrs, call, first_ret>>

\* lines 964..965: the test of g_vaapi_init_done
vaapi_init_capabilities_entry(t) ==
    /\ At(t, "vaapi_init_capabilities", "entry")
    /\ IF g_vaapi_init_done # 0
         THEN Return(t, 0)
         ELSE Goto(t, "set_done") /\ UNCHANGED <<ret, call>>
    /\ ev' = NoEv
    /\ UNCHANGED <<cacheA, cacheC, env, seen, probe, attrs, first_ret>>

\* line 967: g_vaapi_init_done = 1, before anything is computed; line 970
vaapi_init_capabilities_set_done(t) ==
    /\ At(t, "vaapi_init_capabilities", "set_done")
    /\ g_vaapi_init_done' = 1
    /\ CallFn(t, "h264_main", "check_profile_support", "H264Main")
    /\ ev' = NoEv
    /\ UNCHANGED <<g_h264_available, g_h265_available, g_h265_10bit_available>>
    /\ initUnch

\* lines 970..973: check(Main) || ..., short-circuited
vaapi_init_capabilities_h264_main(t) ==
    /\ At(t, "vaapi_init_capabilities", "h264_main")
    /\ IF ret[t] # 0
         THEN /\ g_h264_available' = 1
              /\ CallFn(t, "h265", "check_profile_support", "HEVCMain")
         ELSE /\ CallFn(t, "h264_high", "check_profile_support", "H264High")
              /\ UNCHANGED g_h264_available
    /\ ev' = NoEv
    /\ UNCHANGED <<g_vaapi_init_done, g_h265_available, g_h265_10bit_available>>
    /\ initUnch

\* lines 970..973: ... || check(High), stored
vaapi_init_capabilities_h264_high(t) ==
    /\ At(t, "vaapi_init_capabilities", "h264_high")
    /\ g_h264_available' = (IF ret[t] # 0 THEN 1 ELSE 0)
    /\ CallFn(t, "h265", "check_profile_support", "HEVCMain")
    /\ ev' = NoEv
    /\ UNCHANGED <<g_vaapi_init_done, g_h265_available, g_h265_10bit_available>>
    /\ initUnch

\* lines 973..974
vaapi_init_capabilities_h265(t) ==
    /\ At(t, "vaapi_init_capabilities", "h265")
    /\ g_h265_available' = ret[t]
    /\ CallFn(t, "h265_10bit", "check_profile_support", "HEVCMain10")
    /\ ev' = NoEv
    /\ UNCHANGED <<g_vaapi_init_done, g_h264_available, g_h265_10bit_available>>
    /\ initUnch

\* lines 974..978
vaapi_init_capabilities_h265_10bit(t) ==
    /\ At(t, "vaapi_init_capabilities", "h265_10bit")
    /\ g_h265_10bit_available' = ret[t]
    /\ Return(t, 0)
    /\ ev' = NoEv
    /\ UNCHANGED <<g_vaapi_init_done, g_h264_available, g_h265_available>>
    /\ UNCHANGED <<cacheA, env, seen, probe, attrs, first_ret>>

-----------------------------------------------------------------------------
(* The public functions of the one-shot revision, lines 1076..1172 *)

OneShotAvailFns == {"hb_vaapi_h264_available", "hb_vaapi_h265_available",
                    "hb_vaapi_h265_10bit_available"}

g_available(fn) ==
    CASE fn = "hb_vaapi_h264_available" -> g_h264_available
      [] fn = "hb_vaapi_h265_available" -> g_h265_available
      [] fn = "hb_vaapi_h265_10bit_available" -> g_h265_10bit_available

\* lines 1078..1081, 1088..1091, 1098..1101: the hardware-disabled test, then
\* vaapi_init_capabilities()
oneshot_available_entry(t) ==
    /\ ~Idle(t) /\ Top(t).fn \in OneShotAvailFns /\ Top(t).pc = "entry"
    /\ IF hw_disabled
         THEN Return(t, 0)
         ELSE CallFn(t, "return", "vaapi_init_capabilities", "-")
              /\ UNCHANGED <<ret, call>>
    /\ ev' = NoEv
    /\ UNCHANGED <<cacheA, cacheC, env, seen, probe, attrs, first_ret>>

\* lines 1082, 1092, 1102: return g_<family>_available
oneshot_available_return(t) ==
    /\ ~Idle(t) /\ Top(t).fn \in OneShotAvailFns /\ Top(t).pc = "return"
    /\ Return(t, g_available(Top(t).fn))
    /\ ev' = NoEv
    /\ UNCHANGED <<cacheA, cacheC, env, seen, probe, attrs, first_ret>>

\* lines 1128..1133
hb_vaapi_is_encoder(vcodec) == vcodec \in vaapi_encoders

\* a job descriptor: the requested encoder, the resolution, the hardware-decode
\* intent and the rate-control intent (vquality >= 0: quality-based, otherwise
\* bitrate-based); null is the NULL pointer
NullJob == [null |-> TRUE, vcodec |-> "-", width |-> 0, height |-> 0,
            hw_decode |-> FALSE, vquality |-> -1]
Jobs == {NullJob} \cup
        [null : {FALSE}, vcodec : VCodecs, width : {1920, 4097}, height : {1080, 4097},
         hw_decode : BOOLEAN, vquality : {-1, 22}]

MaxJobDimension == 4096

\* lines 1145..1171: the encoder and resolution checks on an initialised cache
hb_vaapi_setup_job_result(job) ==
    IF hb_vaapi_is_encoder(job.vcodec)
         /\ \/ job.vcodec = "VAAPI_H264" /\ g_h264_available = 0
            \/ job.vcodec = "VAAPI_H265" /\ g_h265_available = 0
            \/ job.vcodec = "VAAPI_H265_10BIT" /\ g_h265_10bit_available = 0
      THEN -1
    ELSE IF job.width > MaxJobDimension \/ job.height > MaxJobDimension
      THEN -1
    ELSE 0

\* lines 1138..1142: the NULL test, then vaapi_init_capabilities()
hb_vaapi_setup_job_entry(t) ==
    /\ At(t, "hb_vaapi_setup_job", "entry")
    /\ IF Top(t).arg.null
         THEN Return(t, -1)
         ELSE CallFn(t, "validate", "vaapi_init_capabilities", "-")
              /\ UNCHANGED <<ret, call>>
    /\ ev' = NoEv
    /\ UNCHANGED <<cacheA, cacheC, env, seen, probe, attrs, first_ret>>

\* lines 1145..1171
hb_vaapi_setup_job_validate(t) ==
    /\ At(t, "hb_vaapi_setup_job", "validate")
    /\ Return(t, hb_vaapi_setup_job_result(Top(t).arg))
    /\ ev' = NoEv
    /\ UNCHANGED <<cacheA, cacheC, env, seen, probe, attrs, first_ret>>

-----------------------------------------------------------------------------
(* Specifications of the one-shot revision: calls one after another          *)
(* (SpecOneShot), and two threads on a machine with one device node          *)
(* (SpecOneShotConc)                                                         *)

OneShotInvoke(t) ==
    /\ \/ \E fn \in OneShotAvailFns : Enter(t, fn, "-")
       \/ \E job \in Jobs : Enter(t, "hb_vaapi_setup_job", job)
    /\ UNCHANGED <<cacheA, cacheC, env, seen, probe, attrs, first_ret>>

StepOneShot(t) ==
    \/ check_profile_support_entry(t)
    \/ check_profile_support_open(t)
    \/ check_profile_support_drm(t)
    \/ check_profile_support_dpy(t)
    \/ check_profile_support_init(t)
    \/ vaapi_device_is_usable_enc(t)
    \/ vaapi_device_is_usable_vld(t)
    \/ check_profile_support_profiles(t)
    \/ check_profile_support_term(t)
    \/ check_profile_support_close(t)
    \/ check_profile_support_exhausted(t)
    \/ vaapi_init_capabilities_entry(t)
    \/ vaapi_init_capabilities_set_done(t)
    \/ vaapi_init_capabilities_h264_main(t)
    \/ vaapi_init_capabilities_h264_high(t)
    \/ vaapi_init_capabilities_h265(t)
    \/ vaapi_init_capabilities_h265_10bit(t)
    \/ oneshot_available_entry(t)
    \/ oneshot_available_return(t)
    \/ hb_vaapi_setup_job_entry(t)
    \/ hb_vaapi_setup_job_validate(t)

NextOneShot ==
    \/ AllIdle /\ OneShotInvoke(MainThread)
    \/ StepOneShot(MainThread)
    \/ SetHardwareDisabled

SpecOneShot == Init /\ [][NextOneShot]_vars

\* The calls the two threads make: one availability function and one job setup
OneShotConcJob == [null |-> FALSE, vcodec |-> "VAAPI_H264", width |-> 1920,
                   height |-> 1080, hw_decode |-> TRUE, vquality |-> 22]

OneShotInvokeConc(t) ==
    /\ \/ Enter(t, "hb_vaapi_h264_available", "-")
       \/ Enter(t, "hb_vaapi_setup_job", OneShotConcJob)
    /\ UNCHANGED <<cacheA, cacheC, env, seen, probe, attrs, first_ret>>

NextOneShotConc ==
    \/ \E t \in Threads : OneShotInvokeConc(t)
    \/ \E t \in Threads : StepOneShot(t)
    \/ SetHardwareDisabled

SpecOneShotConc == InitConc /\ [][NextOneShotConc]_vars

\* C4 (as claimed): in the one-shot revision an availability function never
\* returns the unknown sentinel -1.
C4_NeverReturnsUnknown ==
    \A t \in Threads :
       (call[t].done /\ call[t].fn \in OneShotAvailFns) => call[t].ret # -1

\* C6 (as claimed): while the hardware-disabled flag is set, no step of a
\* hb_vaapi_setup_job call opens a device, queries a driver, creates a display
\* or initialises VA.
C6_SetupJobHonoursDisabled ==
    (ev.op \in DeviceOps /\ call[ev.t].fn = "hb_vaapi_setup_job") => ~hw_disabled

\* lines 1136..1172: the job descriptor as hb_vaapi_setup_job leaves it; the
\* function reads the fields of *job and assigns none
JobAfter(t) == call[t].arg

\* line 1136: thread t has completed hb_vaapi_setup_job on a job that is not NULL
SetupJobDone(t) ==
    /\ call[t].done
    /\ call[t].fn = "hb_vaapi_setup_job"
    /\ ~call[t].arg.null

\* C17 (as claimed): hb_vaapi_setup_job returns success for every job.
C17_SetupJobAlwaysSucceeds ==
    \A t \in Threads : SetupJobDone(t) => call[t].ret = 0

\* lines 970..974: every family was computed unavailable
OverallUnavailable ==
    g_h264_available = 0 /\ g_h265_available = 0 /\ g_h265_10bit_available = 0

\* C18 (as claimed): when overall hardware is unavailable, hb_vaapi_setup_job
\* leaves the job with its hardware-decode intent flag cleared.
C18_ClearsHwDecode ==
    \A t \in Threads :
       (SetupJobDone(t) /\ OverallUnavailable) => ~JobAfter(t).hw_decode

\* lines 1147..1157: the cell hb_vaapi_setup_job tests for the encoder of the job
g_available_of(vcodec) ==
    CASE vcodec = "VAAPI_H264" -> g_h264_available
      [] vcodec = "VAAPI_H265" -> g_h265_available
      [] vcodec = "VAAPI_H265_10BIT" -> g_h265_10bit_available

\* line 1145: thread t has completed hb_vaapi_setup_job on a job that requests
\* a VAAPI encoder whose family is available
EncoderJobDone(t) ==
    /\ SetupJobDone(t)
    /\ call[t].arg.vcodec \in vaapi_encoders
    /\ g_available_of(call[t].arg.vcodec) # 0

\* C19 (as claimed): a job that requests an available VAAPI encoder fails the
\* resolution check exactly when its width or height exceeds the max bound of
\* that encoder's family (here the family's fallback: this revision measures
\* no bound).
C19_FamilyResolutionBounds ==
    \A t \in Threads :
       EncoderJobDone(t)
          => (call[t].ret # 0 <=> \/ call[t].arg.width > Fallback(call[t].arg.vcodec)
                                  \/ call[t].arg.height > Fallback(call[t].arg.vcodec))

\* lines 1078..1082, 1088..1092, 1098..1102: what the availability function of
\* the family of vcodec returns on the initialised cache when
\* hb_is_hardware_disabled() answers `disabled`
PublicAvailable(vcodec, disabled) == IF disabled THEN 0 ELSE g_available_of(vcodec)

\* C32 (as claimed): when hb_vaapi_setup_job accepts a job that requests a
\* VAAPI encoder, the availability function of that encoder's family returns
\* true at that moment (the hardware-disabled flag is as the call found it).
C32_ValidatorAgreesWithApi ==
    \A t \in Threads :
       (SetupJobDone(t) /\ call[t].arg.vcodec \in vaapi_encoders /\ call[t].ret = 0)
          => PublicAvailable(call[t].arg.vcodec, call[t].dis) > 0

\* the rate-control intent of the job is not served by the modes measured for
\* the family of its encoder (lines 419..465)
RcIncompatible(job) ==
    IF job.vquality >= 0
      THEN hb_vaapi_supports_cqp(job.vcodec) = 0 /\ hb_vaapi_supports_vbr(job.vcodec) = 0
      ELSE hb_vaapi_supports_vbr(job.vcodec) = 0 /\ hb_vaapi_supports_cbr(job.vcodec) = 0

\* C20 (as claimed): a job that requests a VAAPI encoder is rejected when it is
\* quality-based and neither CQP nor VBR was confirmed for the family, or
\* bitrate-based and neither VBR nor CBR was.
C20_RateControlChecked ==
    \A t \in Threads :
       (EncoderJobDone(t) /\ RcIncompatible(call[t].arg)) => call[t].ret # 0

-----------------------------------------------------------------------------
(* The two profile probes on their own (SpecProbe): check_vaapi_codec_support *)
(* and check_profile_support called for each profile, one call after another *)

ProbeFns == {"check_vaapi_codec_support", "check_profile_support"}

ProbeInvoke(t) ==
    /\ \E fn \in ProbeFns, profile \in VAProfiles : Enter(t, fn, profile)
    /\ UNCHANGED <<cacheA, cacheC, env, seen, probe, attrs, first_ret>>

StepProbe(t) ==
    \/ check_vaapi_codec_support_entry(t)
    \/ check_vaapi_codec_support_open(t)
    \/ check_vaapi_codec_support_drm(t)
    \/ check_vaapi_codec_support_dpy(t)
    \/ check_vaapi_codec_support_init(t)
    \/ check_vaapi_codec_support_profiles(t)
    \/ check_vaapi_codec_support_caps(t)
    \/ check_vaapi_codec_support_term(t)
    \/ check_vaapi_codec_support_close(t)
    \/ check_vaapi_codec_support_exhausted(t)
    \/ query_vaapi_capabilities_entry(t)
    \/ query_vaapi_capabilities_attrs(t)
    \/ query_vaapi_capabilities_store(t)
    \/ check_profile_support_entry(t)
    \/ check_profile_support_open(t)
    \/ check_profile_support_drm(t)
    \/ check_profile_support_dpy(t)
    \/ check_profile_support_init(t)
    \/ vaapi_device_is_usable_enc(t)
    \/ vaapi_device_is_usable_vld(t)
    \/ check_profile_support_profiles(t)
    \/ check_profile_support_term(t)
    \/ check_profile_support_close(t)
    \/ check_profile_support_exhausted(t)

NextProbe ==
    \/ AllIdle /\ ProbeInvoke(MainThread)
    \/ StepProbe(MainThread)
    \/ SetHardwareDisabled

SpecProbe == Init /\ [][NextProbe]_vars

\* the positions of a probe between open() and close(fd), and between a
\* successful vaInitialize and vaTerminate
FdPcs == {"drm", "dpy", "init", "usable_enc", "usable_vld", "profiles", "caps",
          "term", "close", "skip"}
DpyPcs == {"usable_enc", "usable_vld", "profiles", "caps", "term"}
ProbeAt(t, pcs) ==
    \E k \in 1..Len(stack[t]) : stack[t][k].fn \in ProbeFns /\ stack[t][k].pc \in pcs

\* C14: a file descriptor is open only between open() and the close(fd) of the
\* same iteration and an initialised display only until its vaTerminate: none
\* is held when the probe moves to the next candidate, when it returns, or
\* after the call that made the probe has returned.
C14_HandlesReleased ==
    \A t \in Threads :
       /\ probe[t].fd => ProbeAt(t, FdPcs)
       /\ probe[t].dpy => ProbeAt(t, DpyPcs)

\* check_profile_support has found the profile, terminated the display, closed
\* the descriptor and returned 1 with nothing left open
C14_Witness ==
    /\ call[MainThread].done
    /\ call[MainThread].fn = "check_profile_support"
    /\ call[MainThread].ret = 1
    /\ ev.op = "close"
    /\ ~probe[MainThread].fd
    /\ ~probe[MainThread].dpy

\* lines 276..313: the step is thread t's store of an attribute that is not
\* VA_ATTRIB_NOT_SUPPORTED, whose field is fld, into the cell of family group g
StoresField(t, g, fld) ==
    /\ At(t, "query_vaapi_capabilities", "store")
    /\ (Top(t).arg \in {"H264Main", "H264High"}) <=> (g = "h264_caps")
    /\ AttrField(attrs[t].k) = fld
    /\ attrs[t].v[attrs[t].k] # VA_ATTRIB_NOT_SUPPORTED

\* C27: a capability field changes only in the store of its own attribute, and
\* only when the value reported for that attribute is not 'not supported': an
\* attribute reported 'not supported' leaves its field as it was whatever the
\* other six report, and a failed attribute query or a missing encode
\* entrypoint leaves every field as it was.
C27_UnsupportedLeavesField ==
    [][\A fld \in DOMAIN hb_vaapi_caps_t_init :
          /\ h264_caps'[fld] # h264_caps[fld]
                => \E t \in Threads : StoresField(t, "h264_caps", fld)
          /\ h265_caps'[fld] # h265_caps[fld]
                => \E t \in Threads : StoresField(t, "h265_caps", fld)]_vars

\* query_vaapi_capabilities has stored a rate-control mask and is past the RT
\* format and the reference frames, both reported 'not supported': their two
\* fields still hold the initial -1
C27_Witness ==
    /\ At(MainThread, "query_vaapi_capabilities", "store")
    /\ attrs[MainThread].k = 6
    /\ attrs[MainThread].v[4] = VA_ATTRIB_NOT_SUPPORTED
    /\ attrs[MainThread].v[5] = VA_ATTRIB_NOT_SUPPORTED
    /\ caps_ptr(Top(MainThread).arg).rate_control_modes = VA_RC_VBR
    /\ caps_ptr(Top(MainThread).arg).supports_10bit = -1
    /\ caps_ptr(Top(MainThread).arg).supports_bframes = -1

\* the position of the probe thread t is in, "none" when it is in no probe
ProbePc(t) ==
    IF \E k \in 1..Len(stack[t]) : stack[t][k].fn \in ProbeFns
      THEN stack[t][CHOOSE k \in 1..Len(stack[t]) : stack[t][k].fn \in ProbeFns].pc
      ELSE "none"

\* the step is an open() made by the probe of thread t
OpenStep(t) == ProbePc(t) = "open" /\ ev'.op = "open" /\ ev'.t = t

\* C28: within one probe the candidates are opened in the order renderD128,
\* renderD129, card0, card1: the first open is of the first candidate, a failed
\* open or the close of a candidate without the profile moves on to the next
\* and never back, so that each is opened at most once; after a candidate had
\* the profile the probe returns 1 without another open; and when the list is
\* exhausted the probe returns 0.
C28_CandidateOrder ==
    /\ [](/\ render_nodes = <<"/dev/dri/renderD128", "/dev/dri/renderD129",
                              "/dev/dri/card0", "/dev/dri/card1">>
          /\ \A t \in Threads :
                /\ ProbePc(t) \in {"open"} \cup FdPcs => probe[t].i \in Nodes
                /\ probe[t].has_profile => ProbePc(t) \in {"caps", "term", "close"})
    /\ [][\A t \in Threads :
             /\ OpenStep(t)
                   => /\ ev'.node = probe[t].i
                      /\ IF ev'.ok
                           THEN ProbePc(t)' = "drm" /\ probe'[t].i = probe[t].i
                           ELSE probe'[t].i = probe[t].i + 1
             /\ (ProbePc(t) = "entry" /\ ProbePc(t)' = "open") => probe'[t].i = 1
             /\ (ProbePc(t) \in FdPcs /\ ProbePc(t)' \in FdPcs)
                   => probe'[t].i = probe[t].i
             /\ (ProbePc(t) \in FdPcs /\ ProbePc(t)' \in {"open", "exhausted"})
                   => probe'[t].i = probe[t].i + 1
             /\ (probe[t].has_profile /\ ProbePc(t) = "close" /\ ProbePc(t)' # "close")
                   => ProbePc(t)' = "none" /\ ret'[t] = 1
             /\ (ProbePc(t) = "exhausted" /\ ProbePc(t)' # "exhausted")
                   => ProbePc(t)' = "none" /\ ret'[t] = 0]_vars

\* check_vaapi_codec_support has returned 1 from the third candidate, card0,
\* after the two render nodes did not yield the profile
C28_Witness ==
    /\ call[MainThread].done
    /\ call[MainThread].fn = "check_vaapi_codec_support"
    /\ call[MainThread].ret = 1
    /\ ev.op = "close"
    /\ render_nodes[ev.node] = "/dev/dri/card0"

\* the last step was a call of open, drmGetVersion, vaGetDisplayDRM or
\* vaInitialize after which the probe gives the candidate up: the call failed,
\* or the driver is outside the allow-list
SkippedCandidate ==
    /\ ev.op \in DeviceOps
    /\ ProbeAt(ev.t, {"open", "exhausted", "close", "skip"})

\* thread t is about to close the descriptor of a candidate whose display it
\* has just terminated
AfterScan(t) == ProbePc(t) = "close" /\ ev.op = "vaTerminate" /\ ev.t = t

\* the attribute query returned early: the entrypoint query failed or listed
\* no encode entrypoint, or vaGetConfigAttributes failed
EarlyExit ==
    /\ ev.op \in {"vaQueryConfigEntrypoints", "vaGetConfigAttributes"}
    /\ ~InFrame(ev.t, "query_vaapi_capabilities")

\* C31 (as claimed): every probing decision passes at least one record to
\* hb_log before the probe moves on: a candidate that is skipped because open,
\* drmGetVersion, vaGetDisplayDRM or vaInitialize failed or the driver was
\* rejected; an early exit of the attribute query; a profile found in the list
\* (in the step of the scan or in the block entered next); and a candidate
\* left after its scan without the profile.
C31_DecisionsLogged ==
    /\ [](SkippedCandidate => ev.log # {})
    /\ [](EarlyExit => ev.log # {})
    /\ [][\A t \in Threads :
             /\ (ProbePc(t) = "profiles" /\ probe'[t].has_profile)
                   => (ev'.log # {} \/ ProbePc(t)' = "caps")
             /\ (ProbePc(t) = "caps" /\ ProbePc(t)' # "caps") => ev'.log # {}
             /\ (AfterScan(t) /\ ~probe[t].has_profile /\ ProbePc(t)' # "close")
                   => ev'.log # {}]_vars

\* the step is the vaTerminate, the close or the vaInitialize of thread t
TermStep(t) == ev'.op = "vaTerminate" /\ ev'.t = t /\ ev.op # "vaTerminate"
CloseStep(t) == ev'.op = "close" /\ ev'.t = t /\ ev.op # "close"
InitStep(t) == ev'.op = "vaInitialize" /\ ev'.t = t /\ ev.op # "vaInitialize"

\* C37: a display is live from its successful vaInitialize to its vaTerminate.
\* vaTerminate is called only on a live display, which it ends, so never twice
\* and never after a failed vaInitialize; a live display is terminated before
\* the probe leaves the candidate; and close(fd) is called only when the
\* display made from fd is not live, so after its vaTerminate.
C37_TerminateOncePerDisplay ==
    /\ [](\A t \in Threads : probe[t].dpy => probe[t].fd /\ ProbeAt(t, DpyPcs))
    /\ [][\A t \in Threads :
             /\ InitStep(t) => ~probe[t].dpy /\ probe'[t].dpy = ev'.ok
             /\ TermStep(t) => probe[t].dpy /\ ~probe'[t].dpy /\ probe'[t].fd
             /\ CloseStep(t) => ~probe[t].dpy /\ probe[t].fd /\ ~probe'[t].fd
             /\ (~probe[t].dpy /\ probe'[t].dpy) => InitStep(t) /\ ev'.ok
             /\ (probe[t].dpy /\ ~probe'[t].dpy) => TermStep(t)]_vars

\* check_profile_support has returned 1 from the second candidate after a
\* vaTerminate and the close that followed it
C37_Witness ==
    /\ call[MainThread].done
    /\ call[MainThread].fn = "check_profile_support"
    /\ call[MainThread].ret = 1
    /\ ev.op = "close"
    /\ ev.node = 2
    /\ ~probe[MainThread].fd
    /\ ~probe[MainThread].dpy

-----------------------------------------------------------------------------
(* The earlier revision of the lazy cache, src/unnamed/part_000: its         *)
(* check_vaapi_codec_support (lines 113..241) is the device loop above up to *)
(* the profile scan, but calls vaTerminate and close right after the scan    *)
(* (lines 196..197) and queries the capabilities of a found profile         *)
(* afterwards (lines 199..220).  query_vaapi_capabilities (lines 244..325)   *)
(* is the one above.  SpecPart000 calls this probe directly.                 *)

\* part_000 lines 182..194: vaQueryConfigProfiles and the scan
check_vaapi_codec_support_000_profiles(t) ==
    /\ At(t, "check_vaapi_codec_support", "profiles")
    /\ \E scan \in ScanProfiles(Top(t).arg) :
          /\ probe' = [probe EXCEPT ![t].has_profile = scan.found]
          /\ ev' = Indexed(Ev("vaQueryConfigProfiles", t, Top(t).arg, probe[t].i, TRUE),
                           scan.idx)
    /\ Goto(t, "term_000")
    /\ UNCHANGED <<cacheA, cacheC, env, seen, ret, attrs, call, first_ret>>

\* part_000 line 196: vaTerminate(va_dpy)
check_vaapi_codec_support_000_term(t) ==
    /\ At(t, "check_vaapi_codec_support", "term_000")
    /\ probe' = [probe EXCEPT ![t].dpy = FALSE]
    /\ Goto(t, "close_000")
    /\ ev' = Ev("vaTerminate", t, Top(t).arg, probe[t].i, TRUE)
    /\ UNCHANGED <<cacheA, cacheC, env, seen, ret, attrs, call, first_ret>>

\* part_000 lines 197..224: close(fd), then the block of a found profile, or
\* the record of line 223 and the next candidate
check_vaapi_codec_support_000_close(t) ==
    /\ At(t, "check_vaapi_codec_support", "close_000")
    /\ ev' = Logs(Ev("close", t, Top(t).arg, probe[t].i, TRUE),
                  IF probe[t].has_profile
                    THEN {"profile supported"} ELSE {"profile not supported"})
    /\ IF probe[t].has_profile
         THEN probe' = [probe EXCEPT ![t].fd = FALSE] /\ Goto(t, "caps_000")
         ELSE CloseAndContinue(t)
    /\ UNCHANGED <<cacheA, cacheC, env, seen, ret, attrs, call, first_ret>>

\* part_000 lines 203..217: the capability query, "only once", with the
\* va_dpy that line 196 terminated; whatever libva does with it is one of the
\* answers of the query steps
check_vaapi_codec_support_000_caps(t) ==
    /\ At(t, "check_vaapi_codec_support", "caps_000")
    /\ IF caps_ptr(Top(t).arg).max_width = 0
         THEN CallFn(t, "return_000", "query_vaapi_capabilities", Top(t).arg)
         ELSE Goto(t, "return_000")
    /\ ev' = NoEv
    /\ UNCHANGED <<cacheA, cacheC, env, seen, ret, probe, attrs, call, first_ret>>

\* part_000 line 219: return 1
check_vaapi_codec_support_000_return(t) ==
    /\ At(t, "check_vaapi_codec_support", "return_000")
    /\ Return(t, 1)
    /\ LeaveLoop(t)
    /\ ev' = NoEv
    /\ UNCHANGED <<cacheA, cacheC, env, seen, attrs, first_ret>>

Part000Invoke(t) ==
    /\ \E profile \in VAProfiles : Enter(t, "check_vaapi_codec_support", profile)
    /\ UNCHANGED <<cacheA, cacheC, env, seen, probe, attrs, first_ret>>

StepPart000(t) ==
    \/ check_vaapi_codec_support_entry(t)
    \/ check_vaapi_codec_support_open(t)
    \/ check_vaapi_codec_support_drm(t)
    \/ check_vaapi_codec_support_dpy(t)
    \/ check_vaapi_codec_support_init(t)
    \/ check_vaapi_codec_support_000_profiles(t)
    \/ check_vaapi_codec_support_000_term(t)
    \/ check_vaapi_codec_support_000_close(t)
    \/ check_vaapi_codec_support_000_caps(t)
    \/ check_vaapi_codec_support_000_return(t)
    \/ check_vaapi_codec_support_close(t)
    \/ check_vaapi_codec_support_exhausted(t)
    \/ query_vaapi_capabilities_entry(t)
    \/ query_vaapi_capabilities_attrs(t)
    \/ query_vaapi_capabilities_store(t)

NextPart000 ==
    \/ AllIdle /\ Part000Invoke(MainThread)
    \/ StepPart000(MainThread)
    \/ SetHardwareDisabled

SpecPart000 == Init /\ [][NextPart000]_vars

\* the last step was a query of libva on the display of thread ev.t
VaQuery == ev.op \in {"vaQueryConfigEntrypoints", "vaGetConfigAttributes"}

\* C33 (as claimed): vaQueryConfigEntrypoints and vaGetConfigAttributes are
\* issued only on a display that is initialised and not yet terminated, whose
\* file descriptor is still open.
C33_QueryBeforeTerminate ==
    VaQuery => probe[ev.t].dpy /\ probe[ev.t].fd

-----------------------------------------------------------------------------
(* The decoder functions of the lazy-cache revision, lines 72..82 and        *)
(* 486..571, and their specification (SpecDecode)                            *)

Codecs == {"AV_CODEC_ID_H264", "AV_CODEC_ID_HEVC", "AV_CODEC_ID_AV1",
           "AV_CODEC_ID_VP9", "AV_CODEC_ID_NONE"}
PixFmts == {"NV12", "YUV420P", "YUVJ420P", "P010LE", "YUV420P10", "RGB24"}
Resolutions == {<<1920, 1080>>, <<16384, 16384>>}
\* the adapter_index passed along with a resolution
AdapterIndex(res) == IF res = <<1920, 1080>> THEN 0 ELSE 1

\* lines 486..499
hb_vaapi_decode_get_codec_name(codec_id) ==
    CASE codec_id = "AV_CODEC_ID_H264" -> "h264_vaapi"
      [] codec_id = "AV_CODEC_ID_HEVC" -> "hevc_vaapi"
      [] codec_id = "AV_CODEC_ID_AV1" -> "av1_vaapi"
      [] OTHER -> "NULL"

\* lines 73..82: avcodec_find_decoder_by_name finds the named decoder or not
vaapi_find_decoder(t) ==
    /\ At(t, "vaapi_find_decoder", "entry")
    /\ LET codec_name == hb_vaapi_decode_get_codec_name(Top(t).arg)
       IN \E found \in BOOLEAN :
             Return(t, IF codec_name # "NULL" /\ found THEN codec_name ELSE "NULL")
    /\ ev' = NoEv
    /\ UNCHANGED <<cacheA, cacheC, env, seen, probe, attrs, first_ret>>

EightBit == {"NV12", "YUV420P", "YUVJ420P"}
TenBit == {"P010LE", "YUV420P10"}

\* mutant: HEVC with a 10-bit format is answered by the 8-bit H.265 family
DecodeSupportFn_hevc8(codec, pix_fmt) ==
    CASE codec = "AV_CODEC_ID_H264" /\ pix_fmt \in EightBit -> "hb_vaapi_h264_available"
      [] codec = "AV_CODEC_ID_HEVC" /\ pix_fmt \in EightBit \cup TenBit
            -> "hb_vaapi_h265_available"
      [] codec = "AV_CODEC_ID_AV1" /\ pix_fmt \in {"NV12", "YUV420P"} -> "hb_vaapi_available"
      [] OTHER -> "none"

\* lines 533..568: the availability function the (codec, pix_fmt) pair selects
\* (through hb_vaapi_decode_h264_is_supported and its siblings, lines 501..526),
\* or "none" for `return 0`
DecodeSupportFn(codec, pix_fmt) ==
    CASE codec = "AV_CODEC_ID_H264" /\ pix_fmt \in EightBit -> "hb_vaapi_h264_available"
      [] codec = "AV_CODEC_ID_HEVC" /\ pix_fmt \in EightBit -> "hb_vaapi_h265_available"
      [] codec = "AV_CODEC_ID_HEVC" /\ pix_fmt \in TenBit -> "hb_vaapi_h265_10bit_available"
      [] codec = "AV_CODEC_ID_AV1" /\ pix_fmt \in {"NV12", "YUV420P"} -> "hb_vaapi_available"
      [] OTHER -> "none"

\* lines 528..570: the switch on the codec and the pixel format
hb_vaapi_decode_is_codec_supported_entry(t) ==
    /\ At(t, "hb_vaapi_decode_is_codec_supported", "entry")
    /\ LET fn == DecodeSupportFn(Top(t).arg.codec, Top(t).arg.pix_fmt)
       IN IF fn = "none"
            THEN Return(t, 0)
            ELSE CallFn(t, "return", fn, "-") /\ UNCHANGED <<ret, call>>
    /\ ev' = NoEv
    /\ UNCHANGED <<cacheA, cacheC, env, seen, probe, attrs, first_ret>>

\* lines 540, 549, 554, 562: return what the availability function returned
hb_vaapi_decode_is_codec_supported_return(t) ==
    /\ At(t, "hb_vaapi_decode_is_codec_supported", "return")
    /\ Return(t, ret[t])
    /\ ev' = NoEv
    /\ UNCHANGED <<cacheA, cacheC, env, seen, probe, attrs, first_ret>>

DecodeInvoke(t) ==
    /\ \/ \E codec \in Codecs : Enter(t, "vaapi_find_decoder", codec)
       \/ \E codec \in Codecs, pix_fmt \in PixFmts, res \in Resolutions :
             Enter(t, "hb_vaapi_decode_is_codec_supported",
                   [adapter_index |-> AdapterIndex(res), codec |-> codec,
                    pix_fmt |-> pix_fmt, width |-> res[1], height |-> res[2]])
    /\ UNCHANGED <<cacheA, cacheC, env, seen, probe, attrs, first_ret>>

StepDecode(t) ==
    \/ check_vaapi_codec_support_entry(t)
    \/ check_vaapi_codec_support_open(t)
    \/ check_vaapi_codec_support_drm(t)
    \/ check_vaapi_codec_support_dpy(t)
    \/ check_vaapi_codec_support_init(t)
    \/ check_vaapi_codec_support_profiles(t)
    \/ check_vaapi_codec_support_caps(t)
    \/ check_vaapi_codec_support_term(t)
    \/ check_vaapi_codec_support_close(t)
    \/ check_vaapi_codec_support_exhausted(t)
    \/ query_vaapi_capabilities_entry(t)
    \/ query_vaapi_capabilities_attrs(t)
    \/ query_vaapi_capabilities_store(t)
    \/ hb_vaapi_h264_available_entry(t)
    \/ hb_vaapi_h264_available_main(t)
    \/ hb_vaapi_h264_available_high(t)
    \/ hb_vaapi_h264_available_return(t)
    \/ hb_vaapi_h265_available_entry(t)
    \/ hb_vaapi_h265_available_store(t)
    \/ hb_vaapi_h265_available_return(t)
    \/ hb_vaapi_h265_10bit_available_entry(t)
    \/ hb_vaapi_h265_10bit_available_store(t)
    \/ hb_vaapi_h265_10bit_available_return(t)
    \/ hb_vaapi_available_entry(t)
    \/ hb_vaapi_available_h264(t)
    \/ hb_vaapi_available_h265(t)
    \/ hb_vaapi_available_h265_10bit(t)
    \/ hb_vaapi_available_return(t)
    \/ vaapi_find_decoder(t)
    \/ hb_vaapi_decode_is_codec_supported_entry(t)
    \/ hb_vaapi_decode_is_codec_supported_return(t)

NextDecode ==
    \/ AllIdle /\ DecodeInvoke(MainThread)
    \/ StepDecode(MainThread)
    \/ SetHardwareDisabled

SpecDecode == InitConc /\ [][NextDecode]_vars

\* thread t has completed hb_vaapi_decode_is_codec_supported
DecodeCheckDone(t) ==
    call[t].done /\ call[t].fn = "hb_vaapi_decode_is_codec_supported"

\* C34: hb_vaapi_decode_is_codec_supported returns the availability of the
\* H264 family for H264 with NV12, YUV420P or YUVJ420P, of the H265 family for
\* HEVC with those formats, of the H265_10BIT family for HEVC with P010LE or
\* YUV420P10, the overall availability for AV1 with NV12 or YUV420P, and 0 for
\* every other codec or pixel format, whatever adapter_index, width and height.
C34_DecodeSupportTable ==
    \A t \in Threads :
       DecodeCheckDone(t) =>
          LET codec == call[t].arg.codec
              pix_fmt == call[t].arg.pix_fmt
              planar8 == {"NV12", "YUV420P", "YUVJ420P"}
          IN call[t].ret =
                CASE codec = "AV_CODEC_ID_H264" /\ pix_fmt \in planar8
                        -> is_h264_available
                  [] codec = "AV_CODEC_ID_HEVC" /\ pix_fmt \in planar8
                        -> is_h265_available
                  [] codec = "AV_CODEC_ID_HEVC" /\ pix_fmt \in {"P010LE", "YUV420P10"}
                        -> is_h265_10bit_available
                  [] codec = "AV_CODEC_ID_AV1" /\ pix_fmt \in {"NV12", "YUV420P"}
                        -> vaapi_available
                  [] OTHER -> 0

\* the call for HEVC in P010LE at 16384x16384 on adapter 1 has returned 1, the
\* availability of the H265_10BIT family, while the H265 family is unavailable
C34_Witness ==
    /\ DecodeCheckDone(MainThread)
    /\ call[MainThread].arg = [adapter_index |-> 1, codec |-> "AV_CODEC_ID_HEVC",
                               pix_fmt |-> "P010LE", width |-> 16384, height |-> 16384]
    /\ call[MainThread].ret = 1
    /\ is_h265_10bit_available = 1
    /\ is_h265_available = 0

\* FFmpeg has a software decoder for every codec but AV_CODEC_ID_NONE
HasSoftwareDecoder(codec) == codec # "AV_CODEC_ID_NONE"

\* C15 (as claimed): vaapi_find_decoder returns a decoder for every codec that
\* has a software decoder.
C15_ResolverFallsBack ==
    \A t \in Threads :
       (/\ call[t].done /\ call[t].fn = "vaapi_find_decoder"
        /\ HasSoftwareDecoder(call[t].arg))
          => call[t].ret # "NULL"

\* lines 321..357, 573..585: the availability function fn can return true in
\* this state: its cell is 1, or it is still to be computed and a probe can run
CanReturnTrue(fn) ==
    IF fn = "hb_vaapi_available"
      THEN \/ vaapi_available = 1
           \/ /\ vaapi_available = -1
              /\ \E f \in Families :
                    AvailCell(f) = 1 \/ (AvailCell(f) = -1 /\ ~hw_disabled)
      ELSE \E f \in Families :
              /\ AvailFnOfFamily(f) = fn
              /\ AvailCell(f) = 1 \/ (AvailCell(f) = -1 /\ ~hw_disabled)

\* hb_vaapi_decode_is_codec_supported can confirm some combination with codec
CanConfirm(codec) ==
    \E pix_fmt \in PixFmts :
       /\ DecodeSupportFn(codec, pix_fmt) # "none"
       /\ CanReturnTrue(DecodeSupportFn(codec, pix_fmt))

\* C16 (as claimed): vaapi_find_decoder returns the VAAPI decoder of a codec
\* only when hb_vaapi_decode_is_codec_supported confirms the codec for the
\* combination: never in a state where it returns false for every combination.
C16_HardwareOnlyWhenConfirmed ==
    \A t \in Threads :
       (/\ call[t].done /\ call[t].fn = "vaapi_find_decoder"
        /\ call[t].ret = hb_vaapi_decode_get_codec_name(call[t].arg)
        /\ call[t].ret # "NULL")
          => CanConfirm(call[t].arg)

-----------------------------------------------------------------------------
(* The build without HB_PROJECT_FEATURE_VAAPI, lines 587..640: every public  *)
(* function is a stub (SpecStub)                                             *)

StubFns == OneShotAvailFns \cup CapFns
DimensionFns == {"hb_vaapi_get_max_width", "hb_vaapi_get_max_height"}

StubMaxDimension == 4096

\* mutant: the stubs of the dimension queries answer the per-family default of
\* the enabled build
StubResult_enabled(fn, vcodec) ==
    IF fn \in DimensionFns THEN Fallback(vcodec) ELSE 0

\* lines 590..638: the constant each stub returns
StubResult(fn, vcodec) ==
    IF fn \in DimensionFns THEN StubMaxDimension ELSE 0

\* lines 590..638: a stub is its return statement
stub_return(t) ==
    /\ ~Idle(t) /\ Top(t).fn \in StubFns /\ Top(t).pc = "entry"
    /\ Return(t, StubResult(Top(t).fn, Top(t).arg))
    /\ ev' = NoEv
    /\ UNCHANGED <<cacheA, cacheC, env, seen, probe, attrs, first_ret>>

StubCalls == {<<fn, "-">> : fn \in OneShotAvailFns} \cup (CapFns \X VCodecs)

StubInvoke(t) ==
    /\ \E c \in StubCalls : Enter(t, c[1], c[2])
    /\ UNCHANGED <<cacheA, cacheC, env, seen, probe, attrs, first_ret>>

NextStub ==
    \/ AllIdle /\ StubInvoke(MainThread)
    \/ stub_return(MainThread)
    \/ SetHardwareDisabled

SpecStub == Init /\ [][NextStub]_vars

\* C21: with the feature switched off, the availability functions, the B-frame
\* query and the rate-control predicates return 0, hb_vaapi_get_rc_modes returns
\* 0 and the dimension queries return 4096 for every vcodec; no call opens a
\* device, makes any device call, or enters a probe.
C21_StubAnswers ==
    /\ \A t \in Threads :
          (call[t].done /\ call[t].fn \in StubFns)
             => /\ call[t].ret = (IF call[t].fn \in DimensionFns THEN 4096 ELSE 0)
                /\ ~call[t].opened
    /\ ev.op = "none"
    /\ \A t \in Threads : ~ProbeAt(t, {"entry", "open", "exhausted"} \cup FdPcs)
    /\ \A t \in Threads : ~probe[t].fd /\ ~probe[t].dpy

\* the stub of hb_vaapi_get_max_width has returned 4096 for the H.265 encoder,
\* for which the enabled build falls back to 8192
C21_Witness ==
    /\ call[MainThread].done
    /\ call[MainThread].fn = "hb_vaapi_get_max_width"
    /\ call[MainThread].arg = "VAAPI_H265"
    /\ call[MainThread].ret = 4096
    /\ Fallback("VAAPI_H265") = 8192

-----------------------------------------------------------------------------
(* The one-shot revision on a machine with one simulated device             *)
(* (SpecSimulatedOneShot): /dev/dri/renderD128 is the only node, it opens,   *)
(* and the hardware is never disabled.  What vaGetConfigAttributes answers   *)
(* in vaapi_device_is_usable is not part of the simulation.                  *)

SimulatedDevices ==
    [simulated : {TRUE}, driver : {"i915", "nouveau", "NULL"},
     profiles : {{}, {"HEVCMain"}, {"H264High", "HEVCMain10"}, VAProfiles},
     entrypoints : {VAEntrypoints}, extra_profiles : {0}, extra_entrypoints : {0}]

InitSimulated ==
    /\ \E dev \in SimulatedDevices : Machine({1}, dev)
    /\ hw_disabled = FALSE

NextSimulatedOneShot ==
    \/ AllIdle /\ OneShotInvoke(MainThread)
    \/ StepOneShot(MainThread)

SpecSimulatedOneShot == InitSimulated /\ [][NextSimulatedOneShot]_vars

\* thread t has completed the availability function fn
Returned(t, fn) == call[t].done /\ call[t].fn = fn

\* C22 (as claimed): on the device whose driver is "i915" and whose profile
\* list holds only HEVC Main, hb_vaapi_h265_available returns true and
\* hb_vaapi_h264_available and hb_vaapi_h265_10bit_available return false.
C22_HevcOnlyDevice ==
    (device.driver = "i915" /\ device.profiles = {"HEVCMain"})
       => \A t \in Threads :
             /\ Returned(t, "hb_vaapi_h265_available") => call[t].ret = 1
             /\ Returned(t, "hb_vaapi_h264_available") => call[t].ret = 0
             /\ Returned(t, "hb_vaapi_h265_10bit_available") => call[t].ret = 0

\* the positions of a probe from vaGetDisplayDRM to vaTerminate
VaPcs == {"dpy", "init", "usable_enc", "usable_vld", "profiles", "caps", "term"}

\* C25 (as claimed): a probe creates a display, initialises VA and consults the
\* profile list of a device only if drmGetVersion succeeded and named "amdgpu",
\* "radeon" or "i915"; after a failed driver query or any other name the device
\* is closed and skipped.
C25_DriverAllowList ==
    \A t \in Threads : ProbeAt(t, VaPcs) => device.driver \in SupportedDrivers

\* the device passes the allow-list and lists a target profile of family f
ListsFamily(f) ==
    /\ device.driver \in SupportedDrivers
    /\ \E p \in device.profiles : FamilyOfProfile(p) = f

\* C26 (as claimed): a family is reported available if and only if a device that
\* opens, passes the driver allow-list and initialises VA lists the family's
\* target profile, whatever the attribute queries made on the device answer.
C26_ProfileListDecides ==
    device.driver # "NULL"
       => \A t \in Threads : \A f \in Families :
             Returned(t, AvailFnOfFamily(f)) => (call[t].ret = 1 <=> ListsFamily(f))

-----------------------------------------------------------------------------
(* The lazy cache on a machine with simulated devices (SpecSimulatedLazy):   *)
(* every node of /dev/dri is the same device, which opens and whose display  *)
(* is created and initialised.  What vaQueryConfigEntrypoints returns as     *)
(* status and what vaGetConfigAttributes answers is not part of the          *)
(* simulation.                                                               *)

\* the nodes of the simulated machine: renderD128 and renderD129
SimulatedNodes == {1, 2}

LazyDevices ==
    [simulated : {TRUE}, driver : {"i915"},
     profiles : {{}, {"H264Main"}, {"H264High"}, {"HEVCMain", "HEVCMain10"}, VAProfiles},
     entrypoints : {{"VLD"}, {"EncSliceLP"}, {"VLD", "EncSlice"}},
     extra_profiles : {0}, extra_entrypoints : {0}]
    \cup [simulated : {TRUE}, driver : {"nouveau"}, profiles : {VAProfiles},
          entrypoints : {VAEntrypoints}, extra_profiles : {0}, extra_entrypoints : {0}]
    \cup [simulated : {TRUE}, driver : {"i915"}, profiles : {{"HEVCMain"}},
          entrypoints : {{"VLD"}}, extra_profiles : {ProfilesCapacity},
          extra_entrypoints : {EntrypointsCapacity}]

InitSimulatedLazy == \E dev \in LazyDevices : Machine(SimulatedNodes, dev)

NextSimulatedLazy ==
    \/ AllIdle /\ InvokeTermination(MainThread)
    \/ StepA(MainThread)
    \/ SetHardwareDisabled

SpecSimulatedLazy == InitSimulatedLazy /\ [][NextSimulatedLazy]_vars

\* the lists the device reports fit the arrays of the scans
ListsFit ==
    /\ Cardinality(device.profiles) + device.extra_profiles <= ProfilesCapacity
    /\ Cardinality(device.entrypoints) + device.extra_entrypoints <= EntrypointsCapacity

H264Profiles == {"H264Main", "H264High"}

\* the device passes the allow-list and lists H264 Main or H264 High
ListsH264 ==
    device.driver \in SupportedDrivers /\ device.profiles \cap H264Profiles # {}

\* thread t starts the probe for H264 High in this step
HighProbeStarts(t) ==
    /\ ~InFrame(t, "check_vaapi_codec_support")
    /\ Len(stack'[t]) = 2
    /\ stack'[t][2].fn = "check_vaapi_codec_support"
    /\ stack'[t][2].arg = "H264High"

\* C35: on a device whose lists fit the scan arrays, a call of
\* hb_vaapi_h264_available that probes returns true if and only if the device
\* passes the allow-list and lists H264 Main or H264 High; the probe for H264
\* High starts only after the probe for H264 Main has returned false, that is
\* has found H264 Main on no candidate (with the hardware enabled: the device
\* does not list it); and the H264 capability cell is written
\* only by the attribute query for an H264 profile that the open, initialised
\* device of the running probe lists.
C35_H264MainOrHigh ==
    /\ [](\A t \in Threads :
            (/\ Returned(t, "hb_vaapi_h264_available")
             /\ call[t].opened
             /\ ListsFit)
               => (call[t].ret = 1 <=> ListsH264))
    /\ [][\A t \in Threads :
            HighProbeStarts(t)
               => /\ At(t, "hb_vaapi_h264_available", "main")
                  /\ ret[t] = 0
                  /\ (ListsFit /\ ~hw_disabled)
                        => ~(device.driver \in SupportedDrivers
                              /\ "H264Main" \in device.profiles)]_vars
    /\ [][h264_caps' # h264_caps
            => \E t \in Threads :
                  /\ At(t, "query_vaapi_capabilities", "store")
                  /\ Top(t).arg \in H264Profiles
                  /\ probe[t].has_profile /\ probe[t].fd /\ probe[t].dpy
                  /\ device.driver \in SupportedDrivers
                  /\ ListsFit => Top(t).arg \in device.profiles]_vars

\* on the device that lists only H264 High the call has probed H264 Main in
\* vain, then H264 High, returned true and filled the cell
C35_Witness ==
    /\ device.profiles = {"H264High"}
    /\ Returned(MainThread, "hb_vaapi_h264_available")
    /\ call[MainThread].opened
    /\ call[MainThread].ret = 1
    /\ is_h264_available = 1
    /\ h264_caps # hb_vaapi_caps_t_init

\* C36 (as claimed): query_vaapi_capabilities asks vaGetConfigAttributes only
\* about an encode entrypoint that the device reported for the profile; on a
\* device that reports only the low-power slice-encode entrypoint the request
\* is not for the regular slice-encode entrypoint.
C36_RequestedEntrypointReported ==
    (ListsFit /\ ev.op = "vaGetConfigAttributes")
       => ev.entrypoint \in device.entrypoints \cap EncodeEntrypoints

\* C38 (as claimed): whatever count the driver reports, the profile scan reads
\* the 32-entry profiles array only below index 32 and the entrypoint scan
\* reads the 10-entry entrypoints array only below index 10.
C38_ScansInsideBuffers ==
    /\ ev.op = "vaQueryConfigProfiles" => ev.idx < ProfilesCapacity
    /\ ev.op = "vaQueryConfigEntrypoints" => ev.idx < EntrypointsCapacity

====
